---- MODULE Spec2Model ----
(***************************************************************************)
(* A model of the mcptrust Python adapters: the MCPTrust command client    *)
(* of mcptrust_core/cli.py, which resolves the mcptrust binary, builds the *)
(* argument vectors of lock / diff / policy check / run, spawns them as    *)
(* child processes and maps their exit codes and streams onto results and  *)
(* errors; and the adapters built on it, the MCPTrustGuard of              *)
(* autogen_mcptrust with its ensure(), the TrustedMCPServer of             *)
(* langchain_mcptrust and the wrappers wrap_runner and wrap_kickoff.       *)
(*                                                                         *)
(* Python values: an Optional is a sequence of length 0 (None) or 1; a str *)
(* is a TLA+ string, a list[str] a sequence of strings. A call is split at *)
(* the points where it blocks in subprocess.run: one action starts the     *)
(* call up to its first sub-invocation, one action per blocking point      *)
(* takes the sub-invocation's outcome and runs the method on to the next   *)
(* blocking point or to its return / raise.                                *)
(***************************************************************************)
EXTENDS Integers, Sequences, FiniteSets, TLC

VARIABLES
    environ,    \* os.environ.get("MCPTRUST_BIN"): Optional[str]
    which,      \* what shutil.which("mcptrust") answers: Optional[str]
    client,     \* the MCPTrust object: its construction inputs and _bin_path
    pc,         \* where the client's current call blocks ("idle": no call,
                \* "done": the call has returned or raised)
    call,       \* the current (or last) call: its operation and arguments
    frame,      \* the local variables of the call in progress
    running,    \* the child processes subprocess.run is waiting for
    spawned,    \* the argument vectors handed to subprocess.run by this call
    ended,      \* the outcomes of this call's sub-invocations, in order
    result,     \* how the call ended: pending, a returned value, a raised error
    adapter,    \* the adapter object built over the client (a guard, a server)
    outer,      \* the adapter-level call in progress: an adapter method, ensure()
                \* or a wrapper, with the client calls it has made so far
    error_obj,  \* an MCPTrustCommandError the program has built itself, and its
                \* str() once taken
    snapshot    \* the argument vectors of an earlier call, kept by the program
                \* (the call, the client's bin_path, the vectors spawned)

vars == <<environ, which, client, pc, call, frame, running, spawned, ended, result,
          adapter, outer, error_obj, snapshot>>

----------------------------------------------------------------------------
(* Python values *)

None == <<>>
Some(x) == <<x>>

\* bool(x) of an Optional[str]: None and "" are falsy.
TruthyStr(o) == o # None /\ o[1] # ""

\* bool(x) of an Optional[list]: None and [] are falsy.
TruthyList(o) == o # None /\ o[1] # <<>>

\* bool(x) of an Optional dataclass instance: only None is falsy.
TruthyObj(o) == o # None

----------------------------------------------------------------------------
(* Bounds and input sets *)

\* Child exit codes are 0..MaxExit.
MaxExit == 2

ExitCodes == 0..MaxExit

\* The characters of every string that is split or produced by splitting.
StrChars ==
    ("" :> <<>>) @@
    ("a" :> <<"a">>) @@
    ("b" :> <<"b">>) @@
    ("b c" :> <<"b", " ", "c">>) @@
    ("a 'b c'" :> <<"a", " ", "'", "b", " ", "c", "'">>) @@
    ("a  b ''" :> <<"a", " ", " ", "b", " ", "'", "'">>) @@
    ("a 'b" :> <<"a", " ", "'", "b">>) @@
    (" " :> <<" ">>) @@
    ("v1" :> <<"v", "1">>) @@
    (" v1\n" :> <<" ", "v", "1", "\n">>)

FromChars(cs) == CHOOSE s \in DOMAIN StrChars : StrChars[s] = cs

ServerCommands == {None, Some(""), Some("a 'b c'"), Some("a  b ''"), Some("a 'b"), Some(" ")}

ServerArgvs == {None, Some(<<>>), Some(<<"a", "b c">>)}

Lockfiles == {"mcp-lock.json", "other.json"}

Presets == {"baseline", "strict"}

Timeouts == {None, Some(30)}

LogConfigs == {None, Some([format |-> "jsonl", level |-> "debug", output |-> "/var/log/x"])}

ReceiptConfigs == {None, Some([path |-> "r.json", mode |-> "append"])}

BinNames == {None, Some(""), Some("srv")}

\* Values of the MCPTRUST_BIN environment variable (unset, empty, a path).
EnvBins == {None, Some(""), Some("/env/mcptrust")}

\* Answers of shutil.which("mcptrust").
WhichBins == {None, Some("/usr/local/bin/mcptrust")}

\* The bin_path argument of MCPTrust(...).
BinPathArgs == {None, Some(""), Some("/custom/path/mcptrust")}

StdoutTexts == {"", "drift"}

StderrTexts == {"", "boom"}

\* What "mcptrust --version" may print.
VersionTexts == {"", "v1", " v1\n"}

LockArgs ==
    [server_command : ServerCommands, server_argv : ServerArgvs, lockfile : Lockfiles,
     pin : BOOLEAN, verify_provenance : BOOLEAN, timeout : Timeouts,
     log : LogConfigs, receipt : ReceiptConfigs]

CheckArgs ==
    [server_command : ServerCommands, server_argv : ServerArgvs, lockfile : Lockfiles,
     preset : Presets, timeout : Timeouts, log : LogConfigs, receipt : ReceiptConfigs,
     raise_on_fail : BOOLEAN]

RunArgs ==
    [lockfile : Lockfiles, require_provenance : BOOLEAN, dry_run : BOOLEAN,
     bin_name : BinNames, timeout : Timeouts, log : LogConfigs,
     receipt : ReceiptConfigs, raise_on_fail : BOOLEAN]

\* The keyword defaults of lock(), check() and run() (cli.py signatures).
LockDefaults ==
    [server_command |-> None, server_argv |-> None, lockfile |-> "mcp-lock.json",
     pin |-> TRUE, verify_provenance |-> FALSE, timeout |-> None,
     log |-> None, receipt |-> None]

CheckDefaults ==
    [server_command |-> None, server_argv |-> None, lockfile |-> "mcp-lock.json",
     preset |-> "baseline", timeout |-> None, log |-> None, receipt |-> None,
     raise_on_fail |-> FALSE]

RunDefaults ==
    [lockfile |-> "mcp-lock.json", require_provenance |-> FALSE, dry_run |-> FALSE,
     bin_name |-> None, timeout |-> None, log |-> None, receipt |-> None,
     raise_on_fail |-> TRUE]

\* Constructor arguments of the adapters. mcp is None (the guard builds its
\* own MCPTrust()) or the client the program has built.
AdapterCommands == {None, Some(""), Some("a 'b c'")}

GuardArgs ==
    [mcp : {None, Some("client")}, server_command : AdapterCommands,
     server_argv : ServerArgvs, lockfile : Lockfiles, preset : {"strict"},
     log : {None}, receipt : ReceiptConfigs]

KickoffGuardArgs ==
    [mcp : {Some("client")}, server_command : {None, Some("a 'b c'")},
     server_argv : {None, Some(<<"a", "b c">>)}, lockfile : {"mcp-lock.json"},
     preset : {"baseline"}, log : {None}, receipt : {None}]

ServerArgs ==
    [server_command : AdapterCommands, server_argv : ServerArgvs,
     lockfile : {"other.json"}, preset : Presets]

\* The keyword defaults of MCPTrustGuard.ensure (guard.py signature).
EnsureDefaults ==
    [pin |-> TRUE, verify_provenance |-> FALSE, raise_on_fail |-> TRUE,
     lock_if_missing |-> TRUE]

\* Keyword arguments given to ensure(), or configured in a wrapper: a
\* keyword is None when it is not passed.
NoKwargs ==
    [pin |-> None, verify_provenance |-> None, raise_on_fail |-> None,
     lock_if_missing |-> None]

EnsureKwargs ==
    {NoKwargs,
     [raise_on_fail |-> Some(FALSE)] @@ NoKwargs,
     [lock_if_missing |-> Some(FALSE)] @@ NoKwargs,
     [pin |-> Some(FALSE), verify_provenance |-> Some(TRUE)] @@ NoKwargs,
     [pin |-> Some(FALSE), raise_on_fail |-> Some(FALSE)] @@ NoKwargs,
     [lock_if_missing |-> Some(FALSE), raise_on_fail |-> Some(FALSE)] @@ NoKwargs}

\* The arguments a caller hands to a wrapped function, and how the wrapped
\* function can end.
CallerArgs == {<<>>, <<"x", "y">>}

FnOutcomes == {[kind |-> "return", value |-> "result"],
               [kind |-> "raise", error |-> [type |-> "RuntimeError"]]}

----------------------------------------------------------------------------
(* shlex.split(server_command): the POSIX tokenizer with whitespace_split, *)
(* over the characters used here (a space separates, ' and " quote, every  *)
(* other character is a word character).                                   *)

Whitespace == {" "}

Quotes == {"'", "\""}

\* shlex.read_token, character by character. state is " " (between
\* tokens), "a" (in a word) or the open quote; acc holds the tokens so far.
RECURSIVE ShlexRead(_, _, _, _, _, _)
ShlexRead(cs, i, state, token, quoted, acc) ==
    IF i > Len(cs)
    THEN IF state \in Quotes
         THEN [ok |-> FALSE, tokens |-> <<>>]   \* ValueError("No closing quotation")
         ELSE [ok |-> TRUE,
               tokens |-> IF token # <<>> \/ quoted THEN Append(acc, token) ELSE acc]
    ELSE LET c == cs[i] IN
         IF state = " "
         THEN IF c \in Whitespace THEN ShlexRead(cs, i + 1, " ", token, quoted, acc)
              ELSE IF c \in Quotes THEN ShlexRead(cs, i + 1, c, token, TRUE, acc)
              ELSE ShlexRead(cs, i + 1, "a", <<c>>, quoted, acc)
         ELSE IF state \in Quotes
         THEN IF c = state THEN ShlexRead(cs, i + 1, "a", token, TRUE, acc)
              ELSE ShlexRead(cs, i + 1, state, Append(token, c), TRUE, acc)
         ELSE \* state = "a"
              IF c \in Whitespace
              THEN ShlexRead(cs, i + 1, " ", <<>>, FALSE,
                             IF token # <<>> \/ quoted THEN Append(acc, token) ELSE acc)
              ELSE IF c \in Quotes THEN ShlexRead(cs, i + 1, c, token, TRUE, acc)
              ELSE ShlexRead(cs, i + 1, "a", Append(token, c), quoted, acc)

\* shlex.split(s): the tokens as strings, or the ValueError it raises.
ShlexSplit(s) ==
    LET r == ShlexRead(StrChars[s], 1, " ", <<>>, FALSE, <<>>) IN
    IF r.ok
    THEN [ok |-> TRUE, tokens |-> [k \in 1..Len(r.tokens) |-> FromChars(r.tokens[k])]]
    ELSE [ok |-> FALSE, tokens |-> <<>>]

----------------------------------------------------------------------------
(* Errors and results (errors.py, types.py) *)

ValueError(msg) == [type |-> "ValueError", message |-> msg]

MCPTrustNotInstalled == [type |-> "MCPTrustNotInstalled"]

MCPTrustCommandError(code, argv, out, err) ==
    [type |-> "MCPTrustCommandError", exit_code |-> code, argv |-> argv,
     stdout |-> out, stderr |-> err]

LockResult(path, out, err) ==
    [type |-> "LockResult", lockfile_path |-> path, stdout |-> out, stderr |-> err]

CheckResult(passed, dout, derr, pout, perr) ==
    [type |-> "CheckResult", passed |-> passed, diff_stdout |-> dout,
     diff_stderr |-> derr, policy_stdout |-> pout, policy_stderr |-> perr]

RunResult(code, out, err) ==
    [type |-> "RunResult", exit_code |-> code, stdout |-> out, stderr |-> err]

Pending == [kind |-> "pending"]
Return(v) == [kind |-> "return", value |-> v]
Raise(e) == [kind |-> "raise", error |-> e]

----------------------------------------------------------------------------
(* MCPTrust: the pure parts *)

\* Discovery that consults the environment variable before the argument.
DiscoverEnvFirst(bin_path, env_bin, which_bin) ==
    IF TruthyStr(env_bin) THEN Return(env_bin[1])
    ELSE IF TruthyStr(bin_path) THEN Return(bin_path[1])
    ELSE IF TruthyStr(which_bin) THEN Return(which_bin[1])
    ELSE Raise(MCPTrustNotInstalled)

\* MCPTrust.__init__: explicit argument, then MCPTRUST_BIN, then the search
\* path; each is taken only when truthy.
Discover(bin_path, env_bin, which_bin) ==
    IF TruthyStr(bin_path) THEN Return(bin_path[1])
    ELSE IF TruthyStr(env_bin) THEN Return(env_bin[1])
    ELSE IF TruthyStr(which_bin) THEN Return(which_bin[1])
    ELSE Raise(MCPTrustNotInstalled)

\* Common flags with the receipt pairs ahead of the logging pairs.
BuildCommonFlagsReceiptFirst(log, receipt) ==
    (IF TruthyObj(receipt)
     THEN <<"--receipt", receipt[1].path, "--receipt-mode", receipt[1].mode>>
     ELSE <<>>)
    \o
    (IF TruthyObj(log)
     THEN <<"--log-format", log[1].format, "--log-level", log[1].level,
            "--log-output", log[1].output>>
     ELSE <<>>)

\* MCPTrust._build_common_flags
BuildCommonFlags(log, receipt) ==
    (IF TruthyObj(log)
     THEN <<"--log-format", log[1].format, "--log-level", log[1].level,
            "--log-output", log[1].output>>
     ELSE <<>>)
    \o
    (IF TruthyObj(receipt)
     THEN <<"--receipt", receipt[1].path, "--receipt-mode", receipt[1].mode>>
     ELSE <<>>)

\* Parsing that lets server_argv win when both forms are given, as the
\* adapters do.
ParseServerCommandPreferArgv(server_command, server_argv) ==
    IF TruthyList(server_argv) THEN Return(server_argv[1])
    ELSE IF TruthyStr(server_command)
    THEN LET r == ShlexSplit(server_command[1]) IN
         IF r.ok THEN Return(r.tokens) ELSE Raise(ValueError("No closing quotation"))
    ELSE Raise(ValueError("Must specify server_command or server_argv"))

\* Parsing that takes a form as given whenever it is not None.
ParseServerCommandNotNone(server_command, server_argv) ==
    IF server_command # None /\ server_argv # None
    THEN Raise(ValueError("Specify server_command OR server_argv, not both"))
    ELSE IF server_argv # None THEN Return(server_argv[1])
    ELSE IF server_command # None
    THEN LET r == ShlexSplit(server_command[1]) IN
         IF r.ok THEN Return(r.tokens) ELSE Raise(ValueError("No closing quotation"))
    ELSE Raise(ValueError("Must specify server_command or server_argv"))

\* Parsing that hands a command string on as one token, unsplit.
ParseServerCommandNoSplit(server_command, server_argv) ==
    IF TruthyStr(server_command) /\ TruthyList(server_argv)
    THEN Raise(ValueError("Specify server_command OR server_argv, not both"))
    ELSE IF TruthyList(server_argv) THEN Return(server_argv[1])
    ELSE IF TruthyStr(server_command) THEN Return(<<server_command[1]>>)
    ELSE Raise(ValueError("Must specify server_command or server_argv"))

\* MCPTrust._parse_server_command: the tokens, or the ValueError raised.
ParseServerCommand(server_command, server_argv) ==
    IF TruthyStr(server_command) /\ TruthyList(server_argv)
    THEN Raise(ValueError("Specify server_command OR server_argv, not both"))
    ELSE IF TruthyList(server_argv) THEN Return(server_argv[1])
    ELSE IF TruthyStr(server_command)
    THEN LET r == ShlexSplit(server_command[1]) IN
         IF r.ok THEN Return(r.tokens) ELSE Raise(ValueError("No closing quotation"))
    ELSE Raise(ValueError("Must specify server_command or server_argv"))

\* A lock argv with the common flags after "--output" and the lockfile.
LockArgvFlagsAfterOutput(a, cmd_tokens) ==
    <<"lock", "--output", a.lockfile>> \o BuildCommonFlags(a.log, a.receipt)
    \o (IF a.pin THEN <<"--pin">> ELSE <<>>)
    \o (IF a.verify_provenance THEN <<"--verify-provenance">> ELSE <<>>)
    \o <<"--">> \o cmd_tokens

\* The argv lock() builds (before the binary path is prepended).
LockArgv(a, cmd_tokens) ==
    <<"lock">> \o BuildCommonFlags(a.log, a.receipt) \o <<"--output", a.lockfile>>
    \o (IF a.pin THEN <<"--pin">> ELSE <<>>)
    \o (IF a.verify_provenance THEN <<"--verify-provenance">> ELSE <<>>)
    \o <<"--">> \o cmd_tokens

\* The diff argv check() builds.
DiffArgv(a, common_flags, cmd_tokens) ==
    <<"diff", "--lockfile", a.lockfile>> \o common_flags \o <<"--">> \o cmd_tokens

\* A policy argv that leaves the common flags to the diff step.
PolicyArgvNoFlags(a, common_flags, cmd_tokens) ==
    <<"policy", "check", "--preset", a.preset, "--lockfile", a.lockfile>>
    \o <<"--">> \o cmd_tokens

\* The policy argv check() builds.
PolicyArgv(a, common_flags, cmd_tokens) ==
    <<"policy", "check", "--preset", a.preset, "--lockfile", a.lockfile>>
    \o common_flags \o <<"--">> \o cmd_tokens

\* A run argv that says nothing of provenance unless it is required.
RunArgvOmitFalse(a) ==
    <<"run", "--lock", a.lockfile>> \o BuildCommonFlags(a.log, a.receipt)
    \o (IF a.require_provenance THEN <<"--require-provenance">> ELSE <<>>)
    \o (IF a.dry_run THEN <<"--dry-run">> ELSE <<>>)
    \o (IF TruthyStr(a.bin_name) THEN <<"--bin", a.bin_name[1]>> ELSE <<>>)

\* The argv run() builds.
RunArgv(a) ==
    <<"run", "--lock", a.lockfile>> \o BuildCommonFlags(a.log, a.receipt)
    \o (IF a.require_provenance THEN <<"--require-provenance">>
        ELSE <<"--require-provenance=false">>)
    \o (IF a.dry_run THEN <<"--dry-run">> ELSE <<>>)
    \o (IF TruthyStr(a.bin_name) THEN <<"--bin", a.bin_name[1]>> ELSE <<>>)

\* A _run that resolves the binary again at every spawn, from the
\* environment as it is then.
FullArgvRediscover(argv) ==
    LET r == Discover(client.given.bin_path, environ, which) IN
    <<IF r.kind = "return" THEN r.value ELSE client.bin_path>> \o argv

\* A _run that takes the binary from the environment variable as it is at
\* the time of the call, when it is set.
FullArgvFromEnviron(argv) ==
    <<IF TruthyStr(environ) THEN environ[1] ELSE client.bin_path>> \o argv

\* MCPTrust._run, first half: the vector handed to subprocess.run.
FullArgv(argv) == <<client.bin_path>> \o argv

\* What subprocess.run(full_argv, timeout=timeout) can do: the child exits
\* with a code and its two streams, the timeout (when one is set) expires,
\* or the child cannot be spawned.
Outcomes(timeout, stdouts) ==
    [kind : {"exit"}, returncode : ExitCodes, stdout : stdouts, stderr : StderrTexts]
    \cup (IF timeout # None THEN {[kind |-> "timeout"]} ELSE {})
    \cup {[kind |-> "oserror"]}

\* A _run that reports an expired timeout as a command error with exit
\* code 124 and no output.
RunCompletedTimeoutAsExit(full_argv, o) ==
    IF o.kind = "timeout" THEN Raise(MCPTrustCommandError(124, full_argv, "", ""))
    ELSE IF o.kind = "oserror" THEN Raise([type |-> "OSError"])
    ELSE IF o.returncode # 0
    THEN Raise(MCPTrustCommandError(o.returncode, full_argv, o.stdout, o.stderr))
    ELSE Return([returncode |-> o.returncode, stdout |-> o.stdout, stderr |-> o.stderr])

\* A _run whose error carries the argv as the method built it, without the
\* binary path.
RunCompletedBareArgv(full_argv, o) ==
    IF o.kind = "timeout" THEN Raise([type |-> "TimeoutExpired"])
    ELSE IF o.kind = "oserror" THEN Raise([type |-> "OSError"])
    ELSE IF o.returncode # 0
    THEN Raise(MCPTrustCommandError(o.returncode, Tail(full_argv), o.stdout, o.stderr))
    ELSE Return([returncode |-> o.returncode, stdout |-> o.stdout, stderr |-> o.stderr])

\* MCPTrust._run, second half: a completed process is returned when its
\* return code is 0 and raised as MCPTrustCommandError otherwise; the
\* exceptions of subprocess.run itself pass through.
RunCompleted(full_argv, o) ==
    IF o.kind = "timeout" THEN Raise([type |-> "TimeoutExpired"])
    ELSE IF o.kind = "oserror" THEN Raise([type |-> "OSError"])
    ELSE IF o.returncode # 0
    THEN Raise(MCPTrustCommandError(o.returncode, full_argv, o.stdout, o.stderr))
    ELSE Return([returncode |-> o.returncode, stdout |-> o.stdout, stderr |-> o.stderr])

\* A capture that keeps the streams of a passing step only.
CaptureStepDropOutput(r) ==
    IF r.kind = "return"
    THEN [passed |-> TRUE, stdout |-> r.value.stdout, stderr |-> r.value.stderr,
          error |-> None]
    ELSE [passed |-> FALSE, stdout |-> "", stderr |-> "", error |-> Some(r.error)]

\* The try / except MCPTrustCommandError around one step of check(): the
\* step's passed flag, streams and captured error.
CaptureStep(r) ==
    IF r.kind = "return"
    THEN [passed |-> TRUE, stdout |-> r.value.stdout, stderr |-> r.value.stderr,
          error |-> None]
    ELSE [passed |-> FALSE, stdout |-> r.error.stdout, stderr |-> r.error.stderr,
          error |-> Some(r.error)]

\* An end of check() that raises the diff step's error only.
CheckFinishDiffOnly(raise_on_fail, d, p) ==
    LET passed == d.passed /\ p.passed IN
    IF raise_on_fail /\ ~passed /\ TruthyObj(d.error) THEN Raise(d.error[1])
    ELSE Return(CheckResult(passed, d.stdout, d.stderr, p.stdout, p.stderr))

\* An aggregate that passes when either step passes.
CheckFinishEither(raise_on_fail, d, p) ==
    LET passed == d.passed \/ p.passed IN
    IF raise_on_fail /\ ~passed /\ TruthyObj(d.error) THEN Raise(d.error[1])
    ELSE IF raise_on_fail /\ ~passed /\ TruthyObj(p.error) THEN Raise(p.error[1])
    ELSE Return(CheckResult(passed, d.stdout, d.stderr, p.stdout, p.stderr))

\* An end of check() that raises on failure whatever raise_on_fail is.
CheckFinishAlwaysRaise(raise_on_fail, d, p) ==
    LET passed == d.passed /\ p.passed IN
    IF ~passed /\ TruthyObj(d.error) THEN Raise(d.error[1])
    ELSE IF ~passed /\ TruthyObj(p.error) THEN Raise(p.error[1])
    ELSE Return(CheckResult(passed, d.stdout, d.stderr, p.stdout, p.stderr))

\* An end of check() that looks at the policy error before the diff error.
CheckFinishPolicyFirst(raise_on_fail, d, p) ==
    LET passed == d.passed /\ p.passed IN
    IF raise_on_fail /\ ~passed /\ TruthyObj(p.error) THEN Raise(p.error[1])
    ELSE IF raise_on_fail /\ ~passed /\ TruthyObj(d.error) THEN Raise(d.error[1])
    ELSE Return(CheckResult(passed, d.stdout, d.stderr, p.stdout, p.stderr))

\* The end of check(): the aggregate, then the raise or the CheckResult.
CheckFinish(raise_on_fail, d, p) ==
    LET passed == d.passed /\ p.passed IN
    IF raise_on_fail /\ ~passed /\ TruthyObj(d.error) THEN Raise(d.error[1])
    ELSE IF raise_on_fail /\ ~passed /\ TruthyObj(p.error) THEN Raise(p.error[1])
    ELSE Return(CheckResult(passed, d.stdout, d.stderr, p.stdout, p.stderr))

\* A run() that downgrades a failure whatever raise_on_fail is.
RunFinishNeverRaise(raise_on_fail, r) ==
    IF r.kind = "return" THEN Return(RunResult(0, r.value.stdout, r.value.stderr))
    ELSE Return(RunResult(r.error.exit_code, r.error.stdout, r.error.stderr))

\* A run() whose downgraded result reports 1 for every failure.
RunFinishFlatCode(raise_on_fail, r) ==
    IF r.kind = "return" THEN Return(RunResult(0, r.value.stdout, r.value.stderr))
    ELSE IF raise_on_fail THEN r
    ELSE Return(RunResult(1, r.error.stdout, r.error.stderr))

\* The try / except of run(): 0 and the streams on success; on a
\* MCPTrustCommandError the re-raise, or its exit code and streams.
RunFinish(raise_on_fail, r) ==
    IF r.kind = "return" THEN Return(RunResult(0, r.value.stdout, r.value.stderr))
    ELSE IF raise_on_fail THEN r
    ELSE Return(RunResult(r.error.exit_code, r.error.stdout, r.error.stderr))

\* A lock() that downgrades a failure to a LockResult, as run() can.
LockFinishDowngrade(lockfile, r) ==
    IF r.kind = "return" THEN Return(LockResult(lockfile, r.value.stdout, r.value.stderr))
    ELSE IF r.error.type # "MCPTrustCommandError" THEN r
    ELSE Return(LockResult(lockfile, r.error.stdout, r.error.stderr))

\* The end of lock(): _run's error propagates, else the LockResult.
LockFinish(lockfile, r) ==
    IF r.kind = "return" THEN Return(LockResult(lockfile, r.value.stdout, r.value.stderr))
    ELSE r

\* str.strip() of a text: leading and trailing whitespace removed.
StripSpace == {" ", "\n"}

RECURSIVE LStrip(_)
LStrip(cs) == IF cs # <<>> /\ Head(cs) \in StripSpace THEN LStrip(Tail(cs)) ELSE cs

RECURSIVE RStrip(_)
RStrip(cs) ==
    IF cs # <<>> /\ cs[Len(cs)] \in StripSpace THEN RStrip(SubSeq(cs, 1, Len(cs) - 1))
    ELSE cs

Strip(s) == FromChars(RStrip(LStrip(StrChars[s])))

\* The end of version(): _run's error propagates, else the trimmed stdout.
VersionFinish(r) ==
    IF r.kind = "return" THEN Return(Strip(r.value.stdout)) ELSE r

\* No except clause: every exception of _run leaves the method.
UncaughtAll(r) == r.kind = "raise"

\* Whether r is an exception the except clauses of check() and run() do not
\* catch (anything but MCPTrustCommandError).
Uncaught(r) == r.kind = "raise" /\ r.error.type # "MCPTrustCommandError"

----------------------------------------------------------------------------
(* The client as a state machine *)

NoCall == [op |-> "none"]
NoFrame == [at |-> "none"]

\* No adapter object has been built; no adapter-level call is in progress.
NoAdapter == [cls |-> "none"]
NoOuter == [op |-> "none"]

\* The program holds no error object of its own and no earlier vectors.
NoError == [state |-> "none"]
NoSnapshot == [state |-> "none"]

\* MCPTrust(bin_path): the object with its resolved path, or the failure.
New(bin_path) ==
    LET r == Discover(bin_path, environ, which)
        given == [bin_path |-> bin_path, environ |-> environ, which |-> which] IN
    IF r.kind = "return"
    THEN [state |-> "ok", bin_path |-> r.value, given |-> given]
    ELSE [state |-> "failed", error |-> r.error, given |-> given]

\* A method can be called on a constructed client that is in no call.
Callable == client.state = "ok" /\ pc = "idle"

\* A call ends before any sub-invocation.
EndEarly(c, r) ==
    /\ call' = c
    /\ result' = r
    /\ frame' = NoFrame
    /\ pc' = "done"
    /\ spawned' = <<>>
    /\ ended' = <<>>
    /\ UNCHANGED <<environ, which, client, running>>

\* A call blocks in its first sub-invocation.
Begin(c, at, f, argv) ==
    /\ call' = c
    /\ pc' = at
    /\ frame' = f
    /\ result' = Pending
    /\ running' = <<[argv |-> FullArgv(argv), timeout |-> c.timeout]>>
    /\ spawned' = <<FullArgv(argv)>>
    /\ ended' = <<>>
    /\ UNCHANGED <<environ, which, client>>

\* An end that spawns the same vector once more when the call would raise.
EndRetryOnce(o, r) ==
    IF r.kind = "raise" /\ Len(ended) = Len(spawned) - 1 /\ Len(ended) < 2
       /\ (Len(ended) = 0 \/ spawned[Len(ended)] # running[1].argv)
    THEN /\ spawned' = Append(spawned, running[1].argv)
         /\ ended' = Append(ended, o)
         /\ UNCHANGED <<environ, which, client, call, frame, pc, result, running>>
    ELSE /\ pc' = "done"
         /\ result' = r
         /\ running' = Tail(running)
         /\ ended' = Append(ended, o)
         /\ UNCHANGED <<environ, which, client, call, frame, spawned>>

\* The sub-invocation the call waits for ends with outcome o and the call
\* ends with r.
End(o, r) ==
    /\ pc' = "done"
    /\ result' = r
    /\ running' = Tail(running)
    /\ ended' = Append(ended, o)
    /\ UNCHANGED <<environ, which, client, call, frame, spawned>>

\* The next child started while the one before is still counted as running.
RespawnOverlap(rs, child) == Append(rs, child)

\* subprocess.run has returned, so the child the call waited for has
\* exited; the next self._run starts its child.
Respawn(rs, child) == Append(Tail(rs), child)

\* MCPTrust.lock(**a) up to self._run
LockCall(a) ==
    LET c == [op |-> "lock"] @@ a
        t == ParseServerCommand(a.server_command, a.server_argv) IN
    IF t.kind = "raise" THEN EndEarly(c, t)
    ELSE Begin(c, "lock", NoFrame, LockArgv(a, t.value))

\* MCPTrust.check(**a) up to the diff step's self._run
CheckCall(a) ==
    LET c == [op |-> "check"] @@ a
        t == ParseServerCommand(a.server_command, a.server_argv)
        common_flags == BuildCommonFlags(a.log, a.receipt) IN
    IF t.kind = "raise" THEN EndEarly(c, t)
    ELSE Begin(c, "diff", [at |-> "diff", cmd_tokens |-> t.value,
                           common_flags |-> common_flags],
               DiffArgv(a, common_flags, t.value))

\* MCPTrust.run(**a) up to self._run
RunCall(a) == Begin([op |-> "run"] @@ a, "run", NoFrame, RunArgv(a))

\* The program calls client.lock(...) itself.
Lock ==
    /\ Callable
    /\ \E a \in LockArgs : LockCall(a)
    /\ UNCHANGED <<adapter, outer, error_obj, snapshot>>

\* MCPTrust.lock: self._run returns or raises
LockReturns ==
    /\ pc = "lock"
    /\ \E o \in Outcomes(running[1].timeout, StdoutTexts) :
       End(o, LockFinish(call.lockfile, RunCompleted(running[1].argv, o)))
    /\ UNCHANGED <<adapter, outer, error_obj, snapshot>>

\* The program calls client.check(...) itself.
Check ==
    /\ Callable
    /\ \E a \in CheckArgs : CheckCall(a)
    /\ UNCHANGED <<adapter, outer, error_obj, snapshot>>

\* MCPTrust.check: the diff step's self._run returns or raises; the policy
\* step's self._run is entered unless the exception is not caught.
DiffReturns ==
    /\ pc = "diff"
    /\ \E o \in Outcomes(running[1].timeout, StdoutTexts) :
       LET r == RunCompleted(running[1].argv, o) IN
       IF Uncaught(r) THEN End(o, r)
       ELSE /\ pc' = "policy"
            /\ frame' = [at |-> "policy", cmd_tokens |-> frame.cmd_tokens,
                         common_flags |-> frame.common_flags, diff |-> CaptureStep(r)]
            /\ LET argv == FullArgv(PolicyArgv(call, frame.common_flags, frame.cmd_tokens)) IN
               /\ running' = Respawn(running, [argv |-> argv, timeout |-> call.timeout])
               /\ spawned' = Append(spawned, argv)
            /\ ended' = Append(ended, o)
            /\ UNCHANGED <<environ, which, client, call, result>>
    /\ UNCHANGED <<adapter, outer, error_obj, snapshot>>

\* MCPTrust.check: the policy step's self._run returns or raises; the
\* aggregate is formed and the call returns or raises.
PolicyReturns ==
    /\ pc = "policy"
    /\ \E o \in Outcomes(running[1].timeout, StdoutTexts) :
       LET r == RunCompleted(running[1].argv, o) IN
       IF Uncaught(r) THEN End(o, r)
       ELSE End(o, CheckFinish(call.raise_on_fail, frame.diff, CaptureStep(r)))
    /\ UNCHANGED <<adapter, outer, error_obj, snapshot>>

\* The program calls client.run(...) itself.
Run ==
    /\ Callable
    /\ \E a \in RunArgs : RunCall(a)
    /\ UNCHANGED <<adapter, outer, error_obj, snapshot>>

\* MCPTrust.run: self._run returns or raises
RunReturns ==
    /\ pc = "run"
    /\ \E o \in Outcomes(running[1].timeout, StdoutTexts) :
       LET r == RunCompleted(running[1].argv, o) IN
       IF Uncaught(r) THEN End(o, r)
       ELSE End(o, RunFinish(call.raise_on_fail, r))
    /\ UNCHANGED <<adapter, outer, error_obj, snapshot>>

\* MCPTrust.version() up to self._run
Version ==
    /\ Callable
    /\ Begin([op |-> "version", timeout |-> None], "version", NoFrame, <<"--version">>)
    /\ UNCHANGED <<adapter, outer, error_obj, snapshot>>

\* MCPTrust.version: self._run returns or raises
VersionReturns ==
    /\ pc = "version"
    /\ \E o \in Outcomes(running[1].timeout, VersionTexts) :
       End(o, VersionFinish(RunCompleted(running[1].argv, o)))
    /\ UNCHANGED <<adapter, outer, error_obj, snapshot>>

\* The caller has the call's result or exception; nothing of the call stays
\* in the client, whose only attribute is _bin_path.
Returned ==
    /\ pc = "done"
    /\ pc' = "idle"
    /\ call' = NoCall
    /\ frame' = NoFrame
    /\ spawned' = <<>>
    /\ ended' = <<>>
    /\ result' = Pending
    /\ UNCHANGED <<environ, which, client, running, adapter, outer, error_obj, snapshot>>

\* The state after MCPTrust(bin_path="/mock/mcptrust"), as the tests build it.
Init ==
    /\ environ = None
    /\ which = None
    /\ client = New(Some("/mock/mcptrust"))
    /\ pc = "idle"
    /\ call = NoCall
    /\ frame = NoFrame
    /\ running = <<>>
    /\ spawned = <<>>
    /\ ended = <<>>
    /\ result = Pending
    /\ adapter = NoAdapter
    /\ outer = NoOuter
    /\ error_obj = NoError
    /\ snapshot = NoSnapshot

Next ==
    \/ Lock
    \/ LockReturns
    \/ Check
    \/ DiffReturns
    \/ PolicyReturns
    \/ Run
    \/ RunReturns
    \/ Version
    \/ VersionReturns
    \/ Returned

Spec == Init /\ [][Next]_vars

----------------------------------------------------------------------------
(* Construction and the environment: the client is built from whatever the *)
(* environment holds at that moment, and the environment keeps changing.   *)

\* MCPTrust(bin_path)
Construct ==
    /\ client.state = "none"
    /\ \E bin_path \in BinPathArgs : client' = New(bin_path)
    /\ UNCHANGED <<environ, which, pc, call, frame, running, spawned, ended, result,
                   adapter, outer, error_obj, snapshot>>

\* os.environ["MCPTRUST_BIN"] is set, changed or removed.
SetEnviron ==
    /\ \E v \in EnvBins \ {environ} : environ' = v
    /\ UNCHANGED <<which, client, pc, call, frame, running, spawned, ended, result,
                   adapter, outer, error_obj, snapshot>>

\* The search path changes: shutil.which would answer differently.
SetWhich ==
    /\ \E v \in WhichBins \ {which} : which' = v
    /\ UNCHANGED <<environ, client, pc, call, frame, running, spawned, ended, result,
                   adapter, outer, error_obj, snapshot>>

\* client.lock(server_argv=["a", "b c"]) or the same with timeout=30,
\* every other argument at its default.
LockDefault ==
    /\ Callable
    /\ \E t \in Timeouts :
       LockCall([server_argv |-> Some(<<"a", "b c">>), timeout |-> t] @@ LockDefaults)
    /\ UNCHANGED <<adapter, outer, error_obj, snapshot>>

\* client.check(server_argv=["a", "b c"]) or the same with timeout=30
CheckDefault ==
    /\ Callable
    /\ \E t \in Timeouts :
       CheckCall([server_argv |-> Some(<<"a", "b c">>), timeout |-> t] @@ CheckDefaults)
    /\ UNCHANGED <<adapter, outer, error_obj, snapshot>>

\* client.run() or client.run(timeout=30)
RunDefault ==
    /\ Callable
    /\ \E t \in Timeouts : RunCall([timeout |-> t] @@ RunDefaults)
    /\ UNCHANGED <<adapter, outer, error_obj, snapshot>>

InitDiscovery ==
    /\ environ \in EnvBins
    /\ which \in WhichBins
    /\ client = [state |-> "none"]
    /\ pc = "idle"
    /\ call = NoCall
    /\ frame = NoFrame
    /\ running = <<>>
    /\ spawned = <<>>
    /\ ended = <<>>
    /\ result = Pending
    /\ adapter = NoAdapter
    /\ outer = NoOuter
    /\ error_obj = NoError
    /\ snapshot = NoSnapshot

NextDiscovery ==
    \/ Construct
    \/ SetEnviron
    \/ SetWhich
    \/ LockDefault
    \/ LockReturns
    \/ CheckDefault
    \/ DiffReturns
    \/ PolicyReturns
    \/ RunDefault
    \/ RunReturns
    \/ Version
    \/ VersionReturns
    \/ Returned

DiscoverySpec == InitDiscovery /\ [][NextDiscovery]_vars

----------------------------------------------------------------------------
(* The adapters: MCPTrustGuard (AutoGen, and CrewAI's of the same name),   *)
(* TrustedMCPServer (LangChain) and the function wrappers wrap_runner and  *)
(* wrap_kickoff. An adapter method runs in the caller's thread on top of   *)
(* the client: outer holds the adapter-level call, the client variables    *)
(* the client call it is blocked in.                                       *)

\* MCPTrustGuard.__init__: the usage error when neither form is given,
\* else the attributes, server_argv preferred when both are given.
GuardFields(a) ==
    IF ~TruthyStr(a.server_command) /\ ~TruthyList(a.server_argv)
    THEN Raise(ValueError("Must specify server_command or server_argv"))
    ELSE Return([server_command |-> IF TruthyList(a.server_argv) THEN None
                                    ELSE a.server_command,
                 server_argv |-> IF TruthyList(a.server_argv) THEN a.server_argv
                                 ELSE None,
                 lockfile |-> a.lockfile, preset |-> a.preset,
                 log |-> a.log, receipt |-> a.receipt])

\* TrustedMCPServer.__init__: the attributes, both forms stored as given.
ServerFields(a) ==
    [server_command |-> a.server_command, server_argv |-> a.server_argv,
     lockfile |-> a.lockfile, preset |-> a.preset]

\* The classes with an ensure() method.
GuardClasses == {"autogen.MCPTrustGuard", "crewai.MCPTrustGuard"}

\* The adapter object of class cls with attributes f, built from a; or the
\* record of a constructor that raised e.
Built(cls, f, a) == [cls |-> cls, given |-> a] @@ f
NotBuilt(cls, e, a) == [cls |-> "failed", of |-> cls, error |-> e, given |-> a]

\* A constructor runs when the client exists and nothing is in progress.
Constructible ==
    /\ adapter = NoAdapter /\ outer = NoOuter
    /\ client.state = "ok" /\ pc = "idle"

\* MCPTrustGuard(mcp=..., server_command=..., server_argv=..., ...) of
\* class cls: the validation, then the client (the one given, or a
\* MCPTrust() of its own), then the attributes.
GuardConstruct(cls, a) ==
    LET f == GuardFields(a)
        own == New(None) IN
    IF f.kind = "raise"
    THEN adapter' = NotBuilt(cls, f.error, a) /\ UNCHANGED client
    ELSE IF a.mcp # None
    THEN adapter' = Built(cls, f.value, a) /\ UNCHANGED client
    ELSE IF own.state = "failed"
    THEN adapter' = NotBuilt(cls, own.error, a) /\ UNCHANGED client
    ELSE adapter' = Built(cls, f.value, a) /\ client' = own

\* autogen_mcptrust.MCPTrustGuard(...)
GuardInit ==
    /\ Constructible
    /\ \E a \in GuardArgs : GuardConstruct("autogen.MCPTrustGuard", a)
    /\ UNCHANGED <<environ, which, pc, call, frame, running, spawned, ended, result, outer, error_obj, snapshot>>

\* crewai_mcptrust.MCPTrustGuard(...)
KickoffGuardInit ==
    /\ Constructible
    /\ \E a \in KickoffGuardArgs : GuardConstruct("crewai.MCPTrustGuard", a)
    /\ UNCHANGED <<environ, which, pc, call, frame, running, spawned, ended, result, outer, error_obj, snapshot>>

\* TrustedMCPServer(mcp, server_command, server_argv=..., ...)
ServerInit ==
    /\ Constructible
    /\ \E a \in ServerArgs : adapter' = Built("TrustedMCPServer", ServerFields(a), a)
    /\ UNCHANGED <<environ, which, client, pc, call, frame, running, spawned, ended,
                   result, outer, error_obj, snapshot>>

\* An adapter method can be called on a built adapter of one of the
\* classes when no call is in progress.
AdapterCallable(classes) ==
    /\ adapter.cls \in classes /\ outer = NoOuter
    /\ client.state = "ok" /\ pc = "idle"

\* The keyword arguments MCPTrustGuard.lock hands to self.mcp.lock.
GuardLockArgs(g, pin, verify_provenance) ==
    [server_command |-> g.server_command, server_argv |-> g.server_argv,
     lockfile |-> g.lockfile, pin |-> pin, verify_provenance |-> verify_provenance,
     log |-> g.log, receipt |-> g.receipt] @@ LockDefaults

\* A guard whose check never asks the client to raise.
GuardCheckArgsNoRaise(g, raise_on_fail) ==
    [server_command |-> g.server_command, server_argv |-> g.server_argv,
     lockfile |-> g.lockfile, preset |-> g.preset, log |-> g.log,
     receipt |-> g.receipt, raise_on_fail |-> FALSE] @@ CheckDefaults

\* The keyword arguments MCPTrustGuard.check hands to self.mcp.check.
GuardCheckArgs(g, raise_on_fail) ==
    [server_command |-> g.server_command, server_argv |-> g.server_argv,
     lockfile |-> g.lockfile, preset |-> g.preset, log |-> g.log,
     receipt |-> g.receipt, raise_on_fail |-> raise_on_fail] @@ CheckDefaults

\* A call of an adapter method that only delegates to the client.
Delegate(op) == [op |-> op, at |-> "delegate"]

\* guard.lock(pin=..., verify_provenance=...)
GuardLock ==
    /\ AdapterCallable(GuardClasses)
    /\ \E pin \in BOOLEAN, verify_provenance \in BOOLEAN :
       LockCall(GuardLockArgs(adapter, pin, verify_provenance))
    /\ outer' = Delegate("lock")
    /\ UNCHANGED <<adapter, error_obj, snapshot>>

\* guard.check(raise_on_fail=...)
GuardCheck ==
    /\ AdapterCallable(GuardClasses)
    /\ \E raise_on_fail \in BOOLEAN : CheckCall(GuardCheckArgs(adapter, raise_on_fail))
    /\ outer' = Delegate("check")
    /\ UNCHANGED <<adapter, error_obj, snapshot>>

\* server.lock(pin=..., timeout=...)
ServerLock ==
    /\ AdapterCallable({"TrustedMCPServer"})
    /\ \E pin \in BOOLEAN, timeout \in Timeouts :
       LockCall([server_command |-> adapter.server_command,
                 server_argv |-> adapter.server_argv,
                 lockfile |-> adapter.lockfile,
                 pin |-> pin, timeout |-> timeout] @@ LockDefaults)
    /\ outer' = Delegate("lock")
    /\ UNCHANGED <<adapter, error_obj, snapshot>>

\* server.check(timeout=..., raise_on_fail=...)
ServerCheck ==
    /\ AdapterCallable({"TrustedMCPServer"})
    /\ \E raise_on_fail \in BOOLEAN, timeout \in Timeouts :
       CheckCall([server_command |-> adapter.server_command,
                  server_argv |-> adapter.server_argv,
                  lockfile |-> adapter.lockfile, preset |-> adapter.preset,
                  timeout |-> timeout, raise_on_fail |-> raise_on_fail] @@ CheckDefaults)
    /\ outer' = Delegate("check")
    /\ UNCHANGED <<adapter, error_obj, snapshot>>

\* server.run(dry_run=..., raise_on_fail=...)
ServerRun ==
    /\ AdapterCallable({"TrustedMCPServer"})
    /\ \E dry_run \in BOOLEAN, raise_on_fail \in BOOLEAN :
       RunCall([lockfile |-> adapter.lockfile, dry_run |-> dry_run,
                raise_on_fail |-> raise_on_fail] @@ RunDefaults)
    /\ outer' = Delegate("run")
    /\ UNCHANGED <<adapter, error_obj, snapshot>>

\* The binding of ensure(**kw): a keyword not passed takes its default.
EnsureArgs(kw) ==
    [k \in DOMAIN EnsureDefaults |-> IF kw[k] = None THEN EnsureDefaults[k] ELSE kw[k][1]]

\* An ensure() that locks whenever lock_if_missing is set.
NeedsLockIgnoreExists(lock_if_missing, exists) == lock_if_missing

\* MCPTrustGuard.ensure: lock_if_missing and not os.path.exists(self.lockfile)
NeedsLock(lock_if_missing, exists) == lock_if_missing /\ ~exists

\* An ensure() that goes on to the check whatever lock() did.
EnsureAfterLockSwallow(r) == "check"

\* MCPTrustGuard.ensure after self.lock(...): no except clause, so an
\* exception of lock() leaves ensure(); else the check follows.
EnsureAfterLock(r) == IF r.kind = "raise" THEN "raise" ELSE "check"

\* A wrapper that calls the function whatever ensure() did.
WrapperAfterEnsureAlways(r) == "fn"

\* The wrapper after guard.ensure(...): an exception of ensure() leaves the
\* wrapper; else the wrapped function is called.
WrapperAfterEnsure(r) == IF r.kind = "raise" THEN "raise" ELSE "fn"

\* The client call just finished, as the adapter-level call remembers it:
\* the call, how it ended, and the exit code of each child (-1 for a child
\* that did not exit).
Finished ==
    [call |-> call, kind |-> result.kind,
     codes |-> [i \in DOMAIN ended |->
                  IF ended[i].kind = "exit" THEN ended[i].returncode ELSE -1]]

\* The client call is over: its frame is gone.
ResetCall ==
    /\ pc' = "idle"
    /\ call' = NoCall
    /\ frame' = NoFrame
    /\ spawned' = <<>>
    /\ ended' = <<>>
    /\ result' = Pending
    /\ UNCHANGED <<environ, which, client, running>>

\* ensure(**kw), called directly (hook "none", caller None) or by the
\* wrapper a hook has made, whose caller passed the arguments caller:
\* os.path.exists answers exists; the lock or the check is entered.
EnsureEnter(hook, kw, caller, exists) ==
    LET args == EnsureArgs(kw)
        o == [op |-> "ensure", hook |-> hook, kw |-> kw, args |-> args,
              existed |-> exists, caller |-> caller, trail |-> <<>>,
              fn_got |-> None, fn_out |-> None, result |-> Pending] IN
    IF NeedsLock(args.lock_if_missing, exists)
    THEN /\ LockCall(GuardLockArgs(adapter, args.pin, args.verify_provenance))
         /\ outer' = [at |-> "lock"] @@ o
    ELSE /\ CheckCall(GuardCheckArgs(adapter, args.raise_on_fail))
         /\ outer' = [at |-> "check"] @@ o

\* guard.ensure(**kw)
Ensure ==
    /\ AdapterCallable(GuardClasses)
    /\ \E kw \in EnsureKwargs, exists \in BOOLEAN : EnsureEnter("none", kw, None, exists)
    /\ UNCHANGED <<adapter, error_obj, snapshot>>

\* wrap_runner(fn, guard, **kw)(*args): the wrapper up to guard.ensure(**kw)
RunnerWrapper ==
    /\ AdapterCallable({"autogen.MCPTrustGuard"})
    /\ \E kw \in EnsureKwargs, args \in CallerArgs, exists \in BOOLEAN :
       EnsureEnter("wrap_runner", kw, Some(args), exists)
    /\ UNCHANGED <<adapter, error_obj, snapshot>>

\* wrap_kickoff(kickoff_fn, guard, **kw)(*args): the wrapper up to
\* guard.ensure(**kw)
KickoffWrapper ==
    /\ AdapterCallable({"crewai.MCPTrustGuard"})
    /\ \E kw \in EnsureKwargs, args \in CallerArgs, exists \in BOOLEAN :
       EnsureEnter("wrap_kickoff", kw, Some(args), exists)
    /\ UNCHANGED <<adapter, error_obj, snapshot>>

\* ensure() returns or raises r after the client calls of trail t. Called
\* directly, that is the end; in a wrapper the exception leaves the wrapper
\* too, and after a return the wrapped function is called with the
\* caller's arguments.
EnsureEnds(t, r) ==
    /\ IF outer.hook = "none" \/ WrapperAfterEnsure(r) = "raise"
       THEN outer' = [outer EXCEPT !.at = "done", !.trail = t, !.result = r]
       ELSE outer' = [outer EXCEPT !.at = "fn", !.trail = t, !.fn_got = outer.caller]
    /\ ResetCall

\* MCPTrustGuard.ensure: self.lock(...) has returned or raised
EnsureLockReturns ==
    /\ pc = "done" /\ outer.op = "ensure" /\ outer.at = "lock"
    /\ LET t == Append(outer.trail, Finished) IN
       IF EnsureAfterLock(result) = "raise" THEN EnsureEnds(t, result)
       ELSE /\ CheckCall(GuardCheckArgs(adapter, outer.args.raise_on_fail))
            /\ outer' = [outer EXCEPT !.at = "check", !.trail = t]
    /\ UNCHANGED <<adapter, error_obj, snapshot>>

\* MCPTrustGuard.ensure: self.check(...) has returned or raised
EnsureCheckReturns ==
    /\ pc = "done" /\ outer.op = "ensure" /\ outer.at = "check"
    /\ EnsureEnds(Append(outer.trail, Finished), result)
    /\ UNCHANGED <<adapter, error_obj, snapshot>>

\* The wrapped function returns or raises, and so does the wrapper
\* (return fn(*args, **kwargs)).
FnReturns ==
    /\ outer.op = "ensure" /\ outer.at = "fn"
    /\ \E r \in FnOutcomes :
       outer' = [outer EXCEPT !.at = "done", !.fn_out = Some(r), !.result = r]
    /\ UNCHANGED <<environ, which, client, pc, call, frame, running, spawned, ended,
                   result, adapter, error_obj, snapshot>>

\* The caller has the result or the exception of the adapter-level call.
AdapterReturned ==
    /\ \/ outer.op = "ensure" /\ outer.at = "done"
       \/ outer.op \in {"lock", "check", "run"} /\ pc = "done"
    /\ outer' = NoOuter
    /\ ResetCall
    /\ UNCHANGED <<adapter, error_obj, snapshot>>

NextAdapter ==
    \/ GuardInit
    \/ KickoffGuardInit
    \/ ServerInit
    \/ GuardLock
    \/ GuardCheck
    \/ ServerLock
    \/ ServerCheck
    \/ ServerRun
    \/ Ensure
    \/ RunnerWrapper
    \/ KickoffWrapper
    \/ LockReturns
    \/ DiffReturns
    \/ PolicyReturns
    \/ RunReturns
    \/ EnsureLockReturns
    \/ EnsureCheckReturns
    \/ FnReturns
    \/ AdapterReturned

\* The program has built its client as in Init and goes on to build and use
\* one adapter over it.
AdapterSpec == Init /\ [][NextAdapter]_vars

----------------------------------------------------------------------------
(* Properties *)

\* The server command of call c parses to tokens.
CommandOk(c) == ParseServerCommand(c.server_command, c.server_argv).kind = "return"

\* The i-th sub-invocation of the call ended by the child exiting.
Exited(i) == Len(ended) >= i /\ ended[i].kind = "exit"

\* The i-th sub-invocation ended by the child exiting with a non-zero code.
Failed(i) == Exited(i) /\ ended[i].returncode # 0

\* The i-th sub-invocation ended by the child exiting with code 0.
Succeeded(i) == Exited(i) /\ ended[i].returncode = 0

IsDiffArgv(v) == Len(v) >= 2 /\ v[2] = "diff"

IsPolicyArgv(v) == Len(v) >= 3 /\ v[2] = "policy" /\ v[3] = "check"

\* The i-th child of the call was spawned and has ended: it exited, or the
\* timeout expired and subprocess.run killed it.
Ended(i) == Len(ended) >= i /\ ended[i].kind \in {"exit", "timeout"}

\* C1 as stated: in a check() call with a valid server command the diff
\* child is spawned first and, for every outcome of the diff
\* sub-invocation, the policy child is spawned second.
Orig_C1_PolicyAfterEveryDiffOutcome ==
    (call.op = "check" /\ CommandOk(call)) =>
        /\ Len(spawned) \in {1, 2}
        /\ IsDiffArgv(spawned[1])
        /\ (Ended(1) => Len(spawned) = 2 /\ IsPolicyArgv(spawned[2]))

\* C1, amended: in a check() call with a valid server command the diff
\* child is spawned first and, once it has exited, with whatever exit code,
\* the policy child has been spawned second; the policy child is spawned
\* only after the diff sub-invocation has ended, and no third child is
\* ever spawned.
Thm_C1_CheckRunsDiffThenPolicy ==
    (call.op = "check" /\ CommandOk(call)) =>
        /\ Len(spawned) \in {1, 2}
        /\ IsDiffArgv(spawned[1])
        /\ (Len(spawned) = 2 => IsPolicyArgv(spawned[2]) /\ Len(ended) >= 1)
        /\ (Exited(1) => Len(spawned) = 2)

\* A check() has ended whose diff child exited non-zero and whose policy
\* child was spawned all the same.
Wit_C1_PolicyAfterFailedDiff ==
    /\ pc = "done" /\ call.op = "check"
    /\ Failed(1) /\ Len(spawned) = 2 /\ IsPolicyArgv(spawned[2]) /\ Exited(2)

\* C2: a CheckResult returned by check() has passed = TRUE exactly when the
\* diff child and the policy child both exited with code 0.
Thm_C2_PassedIffBothExitZero ==
    (pc = "done" /\ call.op = "check" /\ result.kind = "return") =>
        /\ result.value.type = "CheckResult"
        /\ Exited(1) /\ Exited(2)
        /\ result.value.passed = (ended[1].returncode = 0 /\ ended[2].returncode = 0)

\* A CheckResult with passed = FALSE was returned although the diff child
\* exited 0 (the policy child did not).
Wit_C2_OnlyPolicyFailed ==
    /\ pc = "done" /\ call.op = "check" /\ result.kind = "return"
    /\ Succeeded(1) /\ Failed(2) /\ ~result.value.passed

\* C3 as stated: check() with a valid server command and raise_on_fail =
\* FALSE never raises, whatever the outcome of its sub-invocations (every
\* child could be spawned).
Orig_C3_CheckNeverRaises ==
    (pc = "done" /\ call.op = "check" /\ CommandOk(call) /\ ~call.raise_on_fail
     /\ \A i \in 1..Len(ended) : ended[i].kind # "oserror") =>
        result.kind = "return"

\* C3, amended: check() with a valid server command and raise_on_fail =
\* FALSE returns a CheckResult for every pair of exit codes of its two
\* children (both failing included), and raises nothing but what
\* subprocess.run itself raised (timeout expiry, failed spawn).
Thm_C3_CheckDefaultNeverRaises ==
    (pc = "done" /\ call.op = "check" /\ CommandOk(call) /\ ~call.raise_on_fail) =>
        /\ (Exited(1) /\ Exited(2)) =>
              (result.kind = "return" /\ result.value.type = "CheckResult")
        /\ result.kind = "raise" =>
              /\ result.error.type \in {"TimeoutExpired", "OSError"}
              /\ ended[Len(ended)].kind \in {"timeout", "oserror"}

\* check(raise_on_fail=False) returned a CheckResult after both children
\* exited non-zero.
Wit_C3_BothFailedReturned ==
    /\ pc = "done" /\ call.op = "check" /\ ~call.raise_on_fail
    /\ Failed(1) /\ Failed(2) /\ result.kind = "return"

Thm_C5_RunRaisesOnNonZero ==
    (pc = "done" /\ call.op = "run" /\ call.raise_on_fail /\ Failed(1)) =>
        /\ result.kind = "raise"
        /\ result.error.type = "MCPTrustCommandError"
        /\ result.error.exit_code = ended[1].returncode

\* run() raised after its child exited with code 2.
Wit_C5_RunRaised ==
    /\ pc = "done" /\ call.op = "run" /\ call.raise_on_fail
    /\ Failed(1) /\ ended[1].returncode = 2 /\ result.kind = "raise"

\* C6: run(raise_on_fail=False) returns, for every exit code of the child, a
\* RunResult with that exit code and the child's stdout and stderr.
Thm_C6_RunResultCarriesExit ==
    (pc = "done" /\ call.op = "run" /\ ~call.raise_on_fail /\ Exited(1)) =>
        result = Return(RunResult(ended[1].returncode, ended[1].stdout, ended[1].stderr))

\* run(raise_on_fail=False) returned a RunResult with exit code 2 and the
\* child's output.
Wit_C6_RunReturnedFailure ==
    /\ pc = "done" /\ call.op = "run" /\ ~call.raise_on_fail
    /\ Failed(1) /\ ended[1].returncode = 2 /\ ended[1].stdout = "drift"
    /\ result.kind = "return" /\ result.value.exit_code = 2

\* C7: lock() raises MCPTrustCommandError whenever its child exits
\* non-zero, whatever its arguments; a LockResult is returned only after
\* exit code 0.
Thm_C7_LockAlwaysRaises ==
    (pc = "done" /\ call.op = "lock") =>
        /\ Failed(1) =>
              (result.kind = "raise" /\ result.error.type = "MCPTrustCommandError")
        /\ result.kind = "return" => Succeeded(1)

\* lock(pin=False, verify_provenance=True, ...) raised after a non-zero exit.
Wit_C7_LockRaised ==
    /\ pc = "done" /\ call.op = "lock" /\ ~call.pin /\ call.verify_provenance
    /\ call.timeout # None /\ call.log # None /\ call.receipt # None
    /\ Failed(1) /\ result.kind = "raise"

\* C8: lock() and check() given both a server_command and a server_argv, or
\* neither, raise ValueError and spawn no child (a form is given when it is
\* non-empty, see C30).
Thm_C8_UsageErrorBeforeSpawn ==
    (call.op \in {"lock", "check"}
     /\ TruthyStr(call.server_command) = TruthyList(call.server_argv)) =>
        /\ pc = "done"
        /\ result.kind = "raise"
        /\ result.error.type = "ValueError"
        /\ spawned = <<>>
        /\ running = <<>>

\* check() was called with both forms and ended with the usage error.
Wit_C8_BothFormsRejected ==
    /\ pc = "done" /\ call.op = "check"
    /\ TruthyStr(call.server_command) /\ TruthyList(call.server_argv)
    /\ result.kind = "raise" /\ spawned = <<>>

\* What shlex.split answers for the command strings used here.
ExpectedSplit ==
    ("a 'b c'" :> <<"a", "b c">>) @@ ("a  b ''" :> <<"a", "b", "">>) @@ (" " :> <<>>)

\* Call c gives exactly one form (the other is None or empty).
ExactlyOneForm(c) == TruthyStr(c.server_command) # TruthyList(c.server_argv)

\* The one form of call c has tokens: a server_argv always, a
\* server_command when its quotes are closed.
HasTokens(c) ==
    TruthyList(c.server_argv) \/ c.server_command[1] \in DOMAIN ExpectedSplit

\* The server tokens of a call that gives exactly one form.
ExpectedTokens(c) ==
    IF TruthyList(c.server_argv) THEN c.server_argv[1]
    ELSE ExpectedSplit[c.server_command[1]]

\* v ends with "--" followed by exactly toks.
EndsWithSeparatorAnd(v, toks) ==
    /\ Len(v) >= Len(toks) + 1
    /\ SubSeq(v, Len(v) - Len(toks), Len(v)) = <<"--">> \o toks

\* C9: for a call of lock() or check() that gives exactly one form, every
\* argv handed to a child ends with "--" followed by exactly the server
\* tokens: a server_argv element for element (a token with a space stays
\* one element), a server_command as its shell-word split; a command
\* string that has no split (an unclosed quote) reaches no child.
Thm_C9_ServerTokensAfterSeparator ==
    (call.op \in {"lock", "check"} /\ ExactlyOneForm(call)) =>
        IF HasTokens(call)
        THEN /\ spawned # <<>>
             /\ \A i \in 1..Len(spawned) :
                    EndsWithSeparatorAnd(spawned[i], ExpectedTokens(call))
        ELSE spawned = <<>>

\* check() has spawned both children from a server_argv with a token that
\* contains a space.
Wit_C9_ArgvTokenWithSpace ==
    /\ call.op = "check" /\ Len(spawned) = 2
    /\ TruthyList(call.server_argv) /\ call.server_argv[1][2] = "b c"
    /\ spawned[2][Len(spawned[2])] = "b c"

\* The first of the three that is given and non-empty.
FirstResolved(g) ==
    IF TruthyStr(g.bin_path) THEN g.bin_path
    ELSE IF TruthyStr(g.environ) THEN g.environ
    ELSE IF TruthyStr(g.which) THEN g.which
    ELSE None

\* C10: the constructed client's path is the explicit argument if given,
\* else MCPTRUST_BIN if set, else the search-path answer; when none
\* resolves construction fails with MCPTrustNotInstalled and no method is
\* ever called (no client object exists).
Thm_C10_DiscoveryPrecedence ==
    /\ client.state = "ok" =>
          /\ FirstResolved(client.given) # None
          /\ client.bin_path = FirstResolved(client.given)[1]
    /\ client.state = "failed" =>
          /\ FirstResolved(client.given) = None
          /\ client.error.type = "MCPTrustNotInstalled"
    /\ client.state # "ok" => (pc = "idle" /\ call = NoCall /\ spawned = <<>>)

\* A client was built from MCPTRUST_BIN although the search path also had
\* an answer, and has spawned a child.
Wit_C10_EnvBeatsSearchPath ==
    /\ client.state = "ok"
    /\ ~TruthyStr(client.given.bin_path)
    /\ TruthyStr(client.given.environ) /\ TruthyStr(client.given.which)
    /\ client.bin_path = client.given.environ[1]
    /\ spawned # <<>>

\* What a fresh discovery would resolve for the client's bin_path argument
\* in the environment as it is now.
ResolvedNow == FirstResolved([bin_path |-> client.given.bin_path, environ |-> environ,
                              which |-> which])

\* C11: once the client is constructed, no call of lock(), check(), run()
\* or version(), however it ends, and no change of MCPTRUST_BIN or of the
\* search path changes the client (its bin_path stays the path resolved at
\* construction), and the first element of every argument vector it hands
\* to subprocess.run is that path.
Thm_C11_BinPathResolvedOnce ==
    /\ [](client.state = "ok" =>
            /\ client.bin_path = FirstResolved(client.given)[1]
            /\ \A i \in DOMAIN spawned : spawned[i][1] = client.bin_path
            /\ \A i \in DOMAIN running : running[i].argv[1] = client.bin_path)
    /\ [][client.state = "ok" => client' = client]_vars

\* A check() has spawned its policy child after the environment changed
\* under it: a discovery done now would resolve another path (or none)
\* than the one both children were spawned with.
Wit_C11_SpawnAfterEnvironmentChange ==
    /\ client.state = "ok" /\ call.op = "check" /\ Len(spawned) = 2
    /\ ended[1].kind = "exit" /\ ended[1].returncode # 0
    /\ ResolvedNow # Some(client.bin_path)
    /\ spawned[2][1] = client.bin_path

\* The six elements a LogConfig stands for, the four a ReceiptConfig stands
\* for, and both for a call c.
ExpectedLogFlags(log) ==
    IF log = None THEN <<>>
    ELSE <<"--log-format", log[1].format, "--log-level", log[1].level,
           "--log-output", log[1].output>>

ExpectedReceiptFlags(receipt) ==
    IF receipt = None THEN <<>>
    ELSE <<"--receipt", receipt[1].path, "--receipt-mode", receipt[1].mode>>

ExpectedFlags(c) == ExpectedLogFlags(c.log) \o ExpectedReceiptFlags(c.receipt)

\* v without its first element (the binary path).
AfterBinary(v) == SubSeq(v, 2, Len(v))

\* v without its first n elements.
Drop(v, n) == SubSeq(v, n + 1, Len(v))

\* The elements of v.
Elements(v) == {v[j] : j \in DOMAIN v}

\* C12: the argv of a lock() call, after the binary path, is "lock", the
\* common flags, "--output", the lockfile, "--pin" iff pin,
\* "--verify-provenance" iff verify_provenance, "--", the server tokens, in
\* this order and nothing else; lock() spawns one child.
Thm_C12_LockArgvExact ==
    (call.op = "lock" /\ spawned # <<>>) =>
        /\ Len(spawned) = 1
        /\ AfterBinary(spawned[1]) =
              <<"lock">> \o ExpectedFlags(call) \o <<"--output", call.lockfile>>
              \o (IF call.pin THEN <<"--pin">> ELSE <<>>)
              \o (IF call.verify_provenance THEN <<"--verify-provenance">> ELSE <<>>)
              \o <<"--">> \o ExpectedTokens(call)

\* A lock() with logging and receipt settings, without pin and with
\* verify_provenance, on a command string, has spawned its child.
Wit_C12_LockWithFlagsNoPin ==
    /\ call.op = "lock" /\ Len(spawned) = 1
    /\ call.log # None /\ call.receipt # None
    /\ ~call.pin /\ call.verify_provenance
    /\ call.server_command = Some("a 'b c'")
    /\ Len(spawned[1]) = 18

\* C13: in a check() call the diff argv is "diff", "--lockfile", lockfile,
\* common flags, "--", server tokens and the policy argv is "policy",
\* "check", "--preset", preset, "--lockfile", lockfile, common flags, "--",
\* server tokens; the two carry the same lockfile and the same elements
\* after it (common flags, separator, tokens).
Thm_C13_CheckArgvsExact ==
    (call.op = "check" /\ spawned # <<>>) =>
        /\ AfterBinary(spawned[1]) =
              <<"diff", "--lockfile", call.lockfile>>
              \o ExpectedFlags(call) \o <<"--">> \o ExpectedTokens(call)
        /\ Len(spawned) >= 2 =>
              /\ AfterBinary(spawned[2]) =
                    <<"policy", "check", "--preset", call.preset,
                      "--lockfile", call.lockfile>>
                    \o ExpectedFlags(call) \o <<"--">> \o ExpectedTokens(call)
              /\ spawned[1][4] = spawned[2][7]
              /\ Drop(spawned[1], 4) = Drop(spawned[2], 7)

\* A check() with the strict preset, another lockfile and logging and
\* receipt settings has spawned its policy child after a failed diff.
Wit_C13_PolicyWithFlags ==
    /\ call.op = "check" /\ Len(spawned) = 2 /\ Failed(1)
    /\ call.preset = "strict" /\ call.lockfile = "other.json"
    /\ call.log # None /\ call.receipt # None
    /\ "--receipt-mode" \in Elements(spawned[2])

\* C14: the argv of a run() call, after the binary path, is "run",
\* "--lock", lockfile, common flags, then "--require-provenance" when
\* require_provenance is true and "--require-provenance=false" otherwise,
\* then "--dry-run" iff dry_run, then "--bin" and the name iff a non-empty
\* bin_name is given; exactly one of the two provenance flags occurs,
\* once, and no "--" separator occurs.
Thm_C14_RunArgvExact ==
    (call.op = "run" /\ spawned # <<>>) =>
        LET v == spawned[1] IN
        /\ Len(spawned) = 1
        /\ AfterBinary(v) =
              <<"run", "--lock", call.lockfile>> \o ExpectedFlags(call)
              \o <<IF call.require_provenance THEN "--require-provenance"
                   ELSE "--require-provenance=false">>
              \o (IF call.dry_run THEN <<"--dry-run">> ELSE <<>>)
              \o (IF call.bin_name \notin {None, Some("")}
                  THEN <<"--bin", call.bin_name[1]>> ELSE <<>>)
        /\ Cardinality({j \in DOMAIN v :
               v[j] \in {"--require-provenance", "--require-provenance=false"}}) = 1
        /\ "--" \notin Elements(v)

\* A run() without required provenance, with dry_run and a binary name,
\* has spawned its child.
Wit_C14_RunNoProvenanceDryBin ==
    /\ call.op = "run" /\ Len(spawned) = 1
    /\ ~call.require_provenance /\ call.dry_run /\ call.bin_name = Some("srv")
    /\ "--require-provenance=false" \in Elements(spawned[1])

\* The names of the common flags.
LogFlagNames == {"--log-format", "--log-level", "--log-output"}

ReceiptFlagNames == {"--receipt", "--receipt-mode"}

\* Where the common flags start in an argv (after the binary path and the
\* operation's own leading elements).
FlagsStart(v) ==
    IF v[2] = "lock" THEN 3
    ELSE IF v[2] = "policy" THEN 8
    ELSE 5

\* How many elements of v are in names.
CountIn(v, names) == Cardinality({j \in DOMAIN v : v[j] \in names})

\* C15: in every argv built by lock(), check() or run() a given LogConfig
\* contributes exactly the six elements "--log-format", format,
\* "--log-level", level, "--log-output", output in this order, a given
\* ReceiptConfig exactly the four elements "--receipt", path,
\* "--receipt-mode", mode in this order after them, and a setting that is
\* not given contributes none of its flags.
Thm_C15_CommonFlagsExact ==
    call.op \in {"lock", "check", "run"} =>
        \A i \in DOMAIN spawned :
            LET v == spawned[i]
                k == FlagsStart(v)
                n == (IF call.log # None THEN 6 ELSE 0)
                m == (IF call.receipt # None THEN 4 ELSE 0) IN
            /\ call.log # None =>
                  SubSeq(v, k, k + 5) =
                      <<"--log-format", call.log[1].format,
                        "--log-level", call.log[1].level,
                        "--log-output", call.log[1].output>>
            /\ call.receipt # None =>
                  SubSeq(v, k + n, k + n + 3) =
                      <<"--receipt", call.receipt[1].path,
                        "--receipt-mode", call.receipt[1].mode>>
            /\ v[k + n + m] \in {"--output", "--", "--require-provenance",
                                 "--require-provenance=false"}
            /\ CountIn(v, LogFlagNames) = (IF call.log # None THEN 3 ELSE 0)
            /\ CountIn(v, ReceiptFlagNames) = (IF call.receipt # None THEN 2 ELSE 0)

\* A run() with a LogConfig and a ReceiptConfig has spawned its child with
\* the ten flag elements.
Wit_C15_BothSettingsGiven ==
    /\ call.op = "run" /\ Len(spawned) = 1
    /\ call.log # None /\ call.receipt # None
    /\ SubSeq(spawned[1], 5, 14) =
          <<"--log-format", "jsonl", "--log-level", "debug", "--log-output", "/var/log/x",
            "--receipt", "r.json", "--receipt-mode", "append">>

\* The client calls the ensure() in progress (or just ended) has made, in
\* order: the finished ones and the one it is blocked in.
CallsMade ==
    [i \in 1..Len(outer.trail) |-> outer.trail[i].call]
    \o (IF call = NoCall THEN <<>> ELSE <<call>>)

\* How many of them are calls of op.
OpCount(op) == Cardinality({i \in DOMAIN CallsMade : CallsMade[i].op = op})

\* ensure() has returned or raised.
EnsureOver == outer.op = "ensure" /\ outer.at \in {"fn", "done"}

\* The lock() made by this ensure() raised.
LockRaised ==
    \E i \in DOMAIN outer.trail :
        outer.trail[i].call.op = "lock" /\ outer.trail[i].kind = "raise"

\* C16: an ensure() call makes a client call at once; when lock_if_missing
\* is true and the lockfile did not exist at the call, that first call is
\* lock() on the guard's lockfile with the given pin and verify_provenance
\* and every later call is a check(), so the lock precedes the check;
\* when the lockfile existed or lock_if_missing is false no call of the
\* ensure() is a lock().
Thm_C16_LockIffMissing ==
    outer.op = "ensure" =>
        LET cs == CallsMade IN
        /\ cs # <<>>
        /\ IF outer.args.lock_if_missing /\ ~outer.existed
           THEN /\ cs[1].op = "lock"
                /\ cs[1].lockfile = adapter.lockfile
                /\ cs[1].pin = outer.args.pin
                /\ cs[1].verify_provenance = outer.args.verify_provenance
                /\ \A i \in DOMAIN cs : i > 1 => cs[i].op = "check"
           ELSE \A i \in DOMAIN cs : cs[i].op = "check"

\* An ensure() for a missing lockfile has ended after lock() and then
\* check(); and the lockfile is not the default one.
Wit_C16_LockedThenChecked ==
    /\ EnsureOver /\ outer.args.lock_if_missing /\ ~outer.existed
    /\ Len(outer.trail) = 2
    /\ outer.trail[1].call.op = "lock" /\ outer.trail[2].call.op = "check"
    /\ outer.trail[1].call.lockfile = "other.json"

\* C17 as stated: every ensure() that has ended has performed the check
\* step exactly once, whether or not lock() was run and however it ended.
Orig_C17_AlwaysChecksOnce ==
    EnsureOver => OpCount("check") = 1

\* C17, amended: an ensure() performs the check step at most once; when it
\* has ended it has performed it exactly once if lock() was not run or
\* returned, and not at all if lock() raised (the exception leaves
\* ensure()). A check step performed has spawned the diff child and, unless
\* that child could not be spawned, the policy child.
Thm_C17_ChecksOnceUnlessLockRaised ==
    outer.op = "ensure" =>
        /\ OpCount("check") <= 1
        /\ EnsureOver => (OpCount("check") = 1 <=> ~LockRaised)
        /\ \A i \in DOMAIN outer.trail :
              outer.trail[i].call.op = "check" =>
                  \/ Len(outer.trail[i].codes) = 2
                  \/ outer.trail[i].codes = <<-1>>

\* An ensure() has ended whose lock() returned and whose check step ran
\* both children, the diff child exiting non-zero.
Wit_C17_CheckedAfterLock ==
    /\ EnsureOver /\ Len(outer.trail) = 2
    /\ outer.trail[1].call.op = "lock" /\ outer.trail[1].kind = "return"
    /\ outer.trail[2].call.op = "check" /\ Len(outer.trail[2].codes) = 2
    /\ outer.trail[2].codes[1] > 0

\* Both command forms were given to the adapter's constructor.
BothFormsGiven ==
    TruthyStr(adapter.given.server_command) /\ TruthyList(adapter.given.server_argv)

\* C18 as stated: an MCPTrustGuard (AutoGen) or TrustedMCPServer built with
\* both forms passes only the token sequence to every lock() and check()
\* of the client, which therefore never ends in a usage error.
Orig_C18_TokensWinInEveryAdapter ==
    (/\ adapter.cls \in {"autogen.MCPTrustGuard", "TrustedMCPServer"}
     /\ BothFormsGiven
     /\ call.op \in {"lock", "check"}) =>
        /\ call.server_command = None
        /\ call.server_argv = adapter.given.server_argv
        /\ ~(result.kind = "raise" /\ result.error.type = "ValueError")

\* C19 as stated: an MCPTrustGuard (AutoGen) or TrustedMCPServer object
\* exists only for a constructor call that gave a command form; a
\* constructor call that gave neither ended in a usage error.
Orig_C19_EveryAdapterRequiresCommand ==
    /\ adapter.cls \in {"autogen.MCPTrustGuard", "TrustedMCPServer"} =>
          (TruthyStr(adapter.given.server_command) \/ TruthyList(adapter.given.server_argv))
    /\ (/\ adapter.cls = "failed"
        /\ ~TruthyStr(adapter.given.server_command)
        /\ ~TruthyList(adapter.given.server_argv)) =>
          adapter.error.type = "ValueError"

\* The value the wrapper's ensure keyword k is configured to, or the
\* default of ensure().
Configured(k) == IF outer.kw[k] = None THEN EnsureDefaults[k] ELSE outer.kw[k][1]

\* A client call of this ensure() has raised.
EnsureRaised == \E i \in DOMAIN outer.trail : outer.trail[i].kind = "raise"

\* C20: in an invocation of a wrapper made by wrap_runner or wrap_kickoff,
\* ensure() is called first, with the configured keywords (a lock() iff
\* lock_if_missing is configured true or left out and the lockfile is
\* missing, with the configured pin and verify_provenance; the check()
\* with the configured raise_on_fail); the wrapped function is called only
\* after ensure() has returned, with the caller's arguments, and then the
\* wrapper ends as the function ends; when ensure() raises the function is
\* not called and the exception leaves the wrapper.
Thm_C20_WrapperEnsuresFirst ==
    (outer.op = "ensure" /\ outer.hook \in {"wrap_runner", "wrap_kickoff"}) =>
        /\ CallsMade # <<>>
        /\ (CallsMade[1].op = "lock") = (Configured("lock_if_missing") /\ ~outer.existed)
        /\ \A i \in DOMAIN CallsMade :
              LET c == CallsMade[i] IN
              IF c.op = "lock"
              THEN /\ c.pin = Configured("pin")
                   /\ c.verify_provenance = Configured("verify_provenance")
              ELSE /\ c.op = "check"
                   /\ c.raise_on_fail = Configured("raise_on_fail")
        /\ outer.fn_got # None =>
              /\ outer.fn_got = outer.caller
              /\ call = NoCall /\ ~EnsureRaised
              /\ outer.trail[Len(outer.trail)].call.op = "check"
        /\ outer.at = "done" =>
              IF EnsureRaised
              THEN /\ outer.fn_got = None /\ outer.fn_out = None
                   /\ outer.result.kind = "raise"
                   /\ outer.result.error.type # "RuntimeError"
              ELSE /\ outer.fn_got = outer.caller
                   /\ outer.fn_out # None
                   /\ outer.result = outer.fn_out[1]

\* A wrapper made by wrap_kickoff with pin=False, raise_on_fail=False has
\* returned the function's result after a lock() and a check() whose
\* policy child exited non-zero.
Wit_C20_KickoffDelegated ==
    /\ outer.op = "ensure" /\ outer.hook = "wrap_kickoff" /\ outer.at = "done"
    /\ outer.kw.pin = Some(FALSE) /\ outer.kw.raise_on_fail = Some(FALSE)
    /\ Len(outer.trail) = 2 /\ outer.trail[2].codes = <<0, 1>>
    /\ outer.fn_got = Some(<<"x", "y">>)
    /\ outer.result = [kind |-> "return", value |-> "result"]

\* e is the MCPTrustCommandError of the i-th sub-invocation of the call:
\* the child's exit code, the vector it was spawned with, its two streams.
ErrorOfChild(e, i) ==
    /\ e.type = "MCPTrustCommandError"
    /\ e.exit_code = ended[i].returncode
    /\ e.argv = spawned[i]
    /\ e.argv[1] = client.bin_path
    /\ e.stdout = ended[i].stdout
    /\ e.stderr = ended[i].stderr

\* C21: a sub-invocation raises MCPTrustCommandError exactly when its
\* child exits non-zero, and the error carries the child's exit code, the
\* full vector spawned (binary path first) and both streams as captured.
\* Seen where the error of _run shows: raised by lock(), version() and
\* run(raise_on_fail=True), captured by check() for its diff step, and
\* raised by check(raise_on_fail=True) for the step that failed first.
Thm_C21_CommandErrorCarriesChild ==
    /\ (pc = "done" /\ call.op \in {"lock", "version"} /\ Exited(1)) =>
          IF ended[1].returncode = 0 THEN result.kind = "return"
          ELSE result.kind = "raise" /\ ErrorOfChild(result.error, 1)
    /\ (pc = "done" /\ call.op = "run" /\ Exited(1) /\ call.raise_on_fail) =>
          IF ended[1].returncode = 0 THEN result.kind = "return"
          ELSE result.kind = "raise" /\ ErrorOfChild(result.error, 1)
    /\ (call.op = "check" /\ Exited(1) /\ frame.at = "policy") =>
          IF ended[1].returncode = 0 THEN frame.diff.error = None
          ELSE frame.diff.error # None /\ ErrorOfChild(frame.diff.error[1], 1)
    /\ (pc = "done" /\ call.op = "check" /\ Exited(1) /\ Exited(2)
        /\ call.raise_on_fail) =>
          IF Failed(1) THEN result.kind = "raise" /\ ErrorOfChild(result.error, 1)
          ELSE IF Failed(2) THEN result.kind = "raise" /\ ErrorOfChild(result.error, 2)
          ELSE result.kind = "return"
    /\ (pc = "done" /\ result.kind = "raise"
        /\ result.error.type = "MCPTrustCommandError") =>
          \E i \in DOMAIN ended : Failed(i) /\ ErrorOfChild(result.error, i)

\* check(raise_on_fail=True) has raised the error of its policy child,
\* which exited with code 2 after printing to both streams.
Wit_C21_PolicyErrorRaised ==
    /\ pc = "done" /\ call.op = "check" /\ Succeeded(1) /\ Failed(2)
    /\ result.kind = "raise" /\ result.error.exit_code = 2
    /\ result.error.stdout = "drift" /\ result.error.stderr = "boom"
    /\ result.error.argv[2] = "policy"

-----------------------------------------------------------------------------
(* The string form of MCPTrustCommandError *)

\* The length of the standard-error preview in str(error).
PreviewLen == 200

\* The longest standard-error text the program puts in an error here.
MaxStderrLen == 202

\* Texts whose characters matter are sequences of one-character strings.
\* A text of n characters that differ from place to place, so that a
\* shifted or shortened copy is a different text; with an apostrophe in
\* first place when quoted.
StderrOfLen(n, quoted) ==
    [i \in 1..n |-> IF quoted /\ i = 1 THEN "'" ELSE <<"a", "b", "c">>[(i % 3) + 1]]

ErrorStderrs == {StderrOfLen(n, q) : n \in 0..MaxStderrLen, q \in BOOLEAN}
ErrorMessages == {<<>>, <<"f", "a", "i", "l">>}
ErrorExitCodes == {1, 2, 127, -9}

\* MCPTrustCommandError(message, exit_code=..., argv=..., stderr=...):
\* stdout keeps its default.
CommandErrorOf(message, exit_code, argv, stderr) ==
    [type |-> "MCPTrustCommandError", message |-> message, exit_code |-> exit_code,
     argv |-> argv, stdout |-> <<>>, stderr |-> stderr]

\* str(n) of an int, in decimal.
RECURSIVE NatDigits(_)
NatDigits(n) ==
    LET d == <<"0", "1", "2", "3", "4", "5", "6", "7", "8", "9">>[(n % 10) + 1]
    IN IF n < 10 THEN <<d>> ELSE NatDigits(n \div 10) \o <<d>>

IntStr(n) == IF n < 0 THEN <<"-">> \o NatDigits(-n) ELSE NatDigits(n)

\* repr(s) of a str: in single quotes, or in double quotes when the text
\* holds an apostrophe and no double quote; the quote character and the
\* backslash are escaped.
RECURSIVE ReprBody(_, _)
ReprBody(cs, q) ==
    IF cs = <<>> THEN <<>>
    ELSE IF Len(cs) = 1
    THEN (IF cs[1] = q \/ cs[1] = "\\" THEN <<"\\", cs[1]>> ELSE cs)
    ELSE LET half == Len(cs) \div 2 IN
         ReprBody(SubSeq(cs, 1, half), q) \o ReprBody(SubSeq(cs, half + 1, Len(cs)), q)

Repr(cs) ==
    LET has(c) == \E i \in 1..Len(cs) : cs[i] = c
        q == IF has("'") /\ ~has("\"") THEN "\"" ELSE "'"
    IN <<q>> \o ReprBody(cs, q) \o <<q>>

\* " | ".join(parts)
RECURSIVE JoinBar(_)
JoinBar(parts) ==
    IF parts = <<>> THEN <<>>
    ELSE IF Len(parts) = 1 THEN parts[1]
    ELSE parts[1] \o <<" ", "|", " ">> \o JoinBar(Tail(parts))

\* The fault: the marker is appended from PreviewLen characters on.
ErrorStrMarkAtLimit(e) ==
    LET code == <<"e", "x", "i", "t", "_", "c", "o", "d", "e", "=">> \o IntStr(e.exit_code)
        stderr_preview ==
            IF Len(e.stderr) >= PreviewLen
            THEN SubSeq(e.stderr, 1, PreviewLen) \o <<".", ".", ".">>
            ELSE e.stderr
    IN JoinBar(<<e.message, code>>
               \o (IF e.stderr # <<>>
                   THEN <<(<<"s", "t", "d", "e", "r", "r", "=">> \o Repr(stderr_preview))>>
                   ELSE <<>>))

\* MCPTrustCommandError.__str__
ErrorStr(e) ==
    LET base == e.message
        code == <<"e", "x", "i", "t", "_", "c", "o", "d", "e", "=">> \o IntStr(e.exit_code)
        stderr_preview ==
            IF Len(e.stderr) > PreviewLen
            THEN SubSeq(e.stderr, 1, PreviewLen) \o <<".", ".", ".">>
            ELSE e.stderr
    IN JoinBar(<<base, code>>
               \o (IF e.stderr # <<>>
                   THEN <<(<<"s", "t", "d", "e", "r", "r", "=">> \o Repr(stderr_preview))>>
                   ELSE <<>>))

\* The program builds an error object of its own.
NewError ==
    /\ error_obj.state = "none"
    /\ \E m \in ErrorMessages, c \in ErrorExitCodes, s \in ErrorStderrs :
       error_obj' = [state |-> "built",
                     error |-> CommandErrorOf(m, c, <<"mcptrust", "lock">>, s),
                     str |-> None]
    /\ UNCHANGED <<environ, which, client, pc, call, frame, running, spawned, ended,
                   result, adapter, outer, snapshot>>

\* str(error)
Str ==
    /\ error_obj.state = "built" /\ error_obj.str = None
    /\ error_obj' = [error_obj EXCEPT !.str = Some(ErrorStr(error_obj.error))]
    /\ UNCHANGED <<environ, which, client, pc, call, frame, running, spawned, ended,
                   result, adapter, outer, snapshot>>

NextError == NewError \/ Str

ErrorSpec == Init /\ [][NextError]_vars

\* The decimal text of each exit code used, written out.
CodeText ==
    (1 :> <<"1">>) @@ (2 :> <<"2">>) @@ (127 :> <<"1", "2", "7">>) @@ (-9 :> <<"-", "9">>)

\* s begins with p; what follows p in s.
StartsWith(s, p) == Len(s) >= Len(p) /\ SubSeq(s, 1, Len(p)) = p
After(s, p) == SubSeq(s, Len(p) + 1, Len(s))

\* t in quotes of one kind.
Quoted(t) == {<<q>> \o t \o <<q>> : q \in {"'", "\""}}

\* C22: the string form of every MCPTrustCommandError holds the message and
\* "exit_code=<code>"; with an empty stderr nothing follows; otherwise
\* " | stderr=" follows with the quoted preview: stderr whole when it has
\* PreviewLen characters or fewer, its first PreviewLen characters and
\* "..." when it has more.
Thm_C22_StrBoundsStderr ==
    (error_obj.state = "built" /\ error_obj.str # None) =>
        LET e == error_obj.error
            s == error_obj.str[1]
            head == e.message \o <<" ", "|", " ", "e", "x", "i", "t", "_", "c", "o", "d", "e", "=">> \o CodeText[e.exit_code]
            rest == After(s, head)
            label == <<" ", "|", " ", "s", "t", "d", "e", "r", "r", "=">>
        IN /\ StartsWith(s, head)
           /\ e.stderr = <<>> => rest = <<>>
           /\ (e.stderr # <<>> /\ Len(e.stderr) <= PreviewLen) =>
                 /\ StartsWith(rest, label)
                 /\ After(rest, label) \in Quoted(e.stderr)
           /\ Len(e.stderr) > PreviewLen =>
                 /\ StartsWith(rest, label)
                 /\ After(rest, label)
                       \in Quoted(SubSeq(e.stderr, 1, PreviewLen) \o <<".", ".", ".">>)

\* An error whose stderr is one character over the limit has been rendered,
\* and the rendering ends with the marker and the closing quote.
Wit_C22_LongStderrCut ==
    /\ error_obj.state = "built" /\ error_obj.str # None
    /\ Len(error_obj.error.stderr) = PreviewLen + 1
    /\ LET s == error_obj.str[1]
       IN SubSeq(s, Len(s) - 3, Len(s)) = <<".", ".", ".", "'">>

\* The i-th sub-invocation of the call did not end with exit code 0: a
\* non-zero exit, an expired timeout, or a spawn that failed.
Unsuccessful(i) == Len(ended) >= i /\ ~Succeeded(i)

\* C23: no failure is retried. A lock(), run() or version() call spawns at
\* most one child and a check() call at most two, one diff then one policy;
\* no argument vector is spawned twice in one call; and a call that ended
\* with an unsuccessful sub-invocation raised, or returned a RunResult with
\* a non-zero exit_code, or returned a CheckResult with passed false.
Thm_C23_NoRetry ==
    /\ call.op \in {"lock", "run", "version"} => Len(spawned) <= 1
    /\ call.op = "check" =>
          /\ Len(spawned) <= 2
          /\ Len(spawned) >= 1 => IsDiffArgv(spawned[1])
          /\ Len(spawned) = 2 => IsPolicyArgv(spawned[2])
    /\ \A i, j \in 1..Len(spawned) : i # j => spawned[i] # spawned[j]
    /\ Len(ended) <= Len(spawned)
    /\ (pc = "done" /\ \E i \in 1..Len(ended) : Unsuccessful(i)) =>
          \/ result.kind = "raise"
          \/ /\ call.op = "run" /\ result.kind = "return"
             /\ result.value.exit_code # 0
          \/ /\ call.op = "check" /\ result.kind = "return"
             /\ result.value.passed = FALSE

\* A check() whose diff child failed has ended: two children were spawned,
\* the diff once, and the result reports the failure.
Wit_C23_FailedDiffNotRetried ==
    /\ pc = "done" /\ call.op = "check"
    /\ Failed(1) /\ Succeeded(2)
    /\ Len(spawned) = 2
    /\ result.kind = "return" /\ result.value.passed = FALSE

CheckReturned ==
    /\ pc = "done" /\ call.op = "check"
    /\ result.kind = "return" /\ result.value.type = "CheckResult"

\* C25: in every CheckResult returned by check(), diff_stdout and
\* diff_stderr are the streams of the first (diff) child and policy_stdout
\* and policy_stderr those of the second (policy) child, whatever the two
\* exit codes are; and while the policy child runs, the streams kept for
\* the diff step are already those of the diff child.
Thm_C25_StreamsKeptPerStep ==
    /\ CheckReturned =>
          /\ Exited(1) /\ Exited(2)
          /\ IsDiffArgv(spawned[1]) /\ IsPolicyArgv(spawned[2])
          /\ result.value.diff_stdout = ended[1].stdout
          /\ result.value.diff_stderr = ended[1].stderr
          /\ result.value.policy_stdout = ended[2].stdout
          /\ result.value.policy_stderr = ended[2].stderr
    /\ pc = "policy" =>
          /\ frame.diff.stdout = ended[1].stdout
          /\ frame.diff.stderr = ended[1].stderr

\* A CheckResult was returned after the diff child failed with output on
\* both streams and the policy child passed with none.
Wit_C25_FailedDiffOutputKept ==
    /\ CheckReturned
    /\ Failed(1) /\ Succeeded(2)
    /\ result.value.diff_stdout = "drift" /\ result.value.diff_stderr = "boom"
    /\ result.value.policy_stdout = "" /\ result.value.policy_stderr = ""

\* C27: a check() called with raise_on_fail true returns normally only with
\* passed true, after both children exited with code 0; when both children
\* exited and either exited non-zero, the call raised the error of the
\* first step that failed.
Thm_C27_RaiseOnFailReturnsOnlyPassed ==
    (pc = "done" /\ call.op = "check" /\ call.raise_on_fail) =>
        /\ result.kind = "return" =>
              /\ result.value.type = "CheckResult"
              /\ result.value.passed = TRUE
              /\ Succeeded(1) /\ Succeeded(2)
        /\ (Exited(1) /\ Exited(2) /\ (Failed(1) \/ Failed(2))) =>
              /\ result.kind = "raise"
              /\ result.error.type = "MCPTrustCommandError"
              /\ result.error.argv = (IF Failed(1) THEN spawned[1] ELSE spawned[2])

\* A check() with raise_on_fail true has returned a CheckResult.
Wit_C27_RaiseOnFailPassed ==
    /\ CheckReturned /\ call.raise_on_fail
    /\ result.value.passed = TRUE
    /\ Len(ended) = 2

-----------------------------------------------------------------------------
(* Argument vectors across calls: the program keeps the vectors of one      *)
(* finished call and goes on calling, on the same client or on a new one.   *)

\* A further MCPTrust object is constructed and takes the place of the
\* first.
ConstructAgain ==
    /\ client.state # "none" /\ pc = "idle"
    /\ \E bin_path \in BinPathArgs :
       /\ New(bin_path) # client
       /\ client' = New(bin_path)
    /\ UNCHANGED <<environ, which, pc, call, frame, running, spawned, ended, result,
                   adapter, outer, error_obj, snapshot>>

\* The program keeps the vectors a finished call handed to subprocess.run,
\* with the call's arguments, the client's bin_path and whether a
\* sub-invocation of the call was unsuccessful.
Remember ==
    /\ pc = "done" /\ spawned # <<>>
    /\ snapshot.state = "none"
    /\ snapshot' = [state |-> "kept", call |-> call, bin_path |-> client.bin_path,
                    argvs |-> spawned,
                    failed |-> \E i \in 1..Len(ended) : ended[i] \notin
                                  [kind : {"exit"}, returncode : {0},
                                   stdout : StdoutTexts, stderr : StderrTexts]]
    /\ UNCHANGED <<environ, which, client, pc, call, frame, running, spawned, ended,
                   result, adapter, outer, error_obj>>

InitHistory == InitDiscovery

NextHistory ==
    \/ Construct
    \/ ConstructAgain
    \/ SetEnviron
    \/ LockDefault
    \/ LockReturns
    \/ CheckDefault
    \/ DiffReturns
    \/ PolicyReturns
    \/ RunDefault
    \/ RunReturns
    \/ Remember
    \/ Returned

HistorySpec == InitHistory /\ [][NextHistory]_vars

\* The call in progress has the arguments of the remembered call, on a
\* client with the same bin_path.
SameCallAsRemembered ==
    /\ snapshot.state = "kept" /\ client.state = "ok"
    /\ call = snapshot.call
    /\ client.bin_path = snapshot.bin_path

\* C26: a call with the arguments of a remembered call, on a client with
\* the same bin_path, hands subprocess.run the same vectors in the same
\* order, as far as both calls got, whatever was called in between, however
\* it ended and whatever the environment has become.
Thm_C26_ArgvDependsOnArgsAndPathOnly ==
    SameCallAsRemembered =>
        \A i \in 1..Len(spawned) :
            i <= Len(snapshot.argvs) => spawned[i] = snapshot.argvs[i]

\* A check() that failed was remembered; the environment variable has
\* since been set, and a check() with the same arguments on a client with
\* the same bin_path has spawned both its children again.
Wit_C26_SameVectorsAfterFailure ==
    /\ SameCallAsRemembered
    /\ call.op = "check" /\ snapshot.failed
    /\ Len(snapshot.argvs) = 2 /\ Len(spawned) = 2
    /\ Succeeded(1) /\ Succeeded(2)
    /\ TruthyStr(environ) /\ environ[1] # client.bin_path

\* A wrapper made by wrap_runner or wrap_kickoff is running with
\* raise_on_fail true, as it is by default.
WrapperRaising ==
    /\ outer.op = "ensure" /\ outer.hook \in {"wrap_runner", "wrap_kickoff"}
    /\ outer.args.raise_on_fail

\* Some child of a client call this wrapper invocation has finished did
\* not exit with code 0.
SomeChildUnsuccessful ==
    \E i \in DOMAIN outer.trail :
        \E j \in DOMAIN outer.trail[i].codes : outer.trail[i].codes[j] # 0

\* C28: in a wrapper with raise_on_fail true the wrapped function is
\* invoked only after the check of this invocation returned with its diff
\* and policy children both exited 0, and after every lock of this
\* invocation exited 0; when a child of the lock or of the check did not
\* exit 0 the function is not invoked and the wrapper raises.
Thm_C28_FnOnlyAfterCleanCheck ==
    WrapperRaising =>
        /\ outer.fn_got # None =>
              /\ outer.trail # <<>>
              /\ LET last == outer.trail[Len(outer.trail)] IN
                 /\ last.call.op = "check" /\ last.call.raise_on_fail
                 /\ last.kind = "return"
                 /\ last.codes = <<0, 0>>
              /\ \A i \in DOMAIN outer.trail :
                    outer.trail[i].call.op = "lock" => outer.trail[i].codes = <<0>>
              /\ (~outer.existed /\ outer.args.lock_if_missing) =>
                    outer.trail[1].call.op = "lock"
        /\ SomeChildUnsuccessful =>
              /\ outer.fn_got = None /\ outer.fn_out = None
              /\ outer.at = "done" /\ outer.result.kind = "raise"

\* A wrapper made by wrap_runner with no configuration found no lockfile,
\* locked and checked, every child exiting 0, and called the function.
Wit_C28_FnAfterLockAndCheck ==
    /\ WrapperRaising /\ outer.hook = "wrap_runner" /\ outer.kw = NoKwargs
    /\ ~outer.existed
    /\ Len(outer.trail) = 2
    /\ outer.trail[1].codes = <<0>> /\ outer.trail[2].codes = <<0, 0>>
    /\ outer.fn_got # None

\* The i-th sub-invocation of the call ended without an exit code: the
\* timeout expired, or the child could not be spawned.
NoExit(i) == Len(ended) >= i /\ ended[i].kind \in {"timeout", "oserror"}

\* C29: a sub-invocation that ends by an expired timeout or a failed spawn
\* is the call's last, and the call raises TimeoutExpired or OSError, not
\* MCPTrustCommandError, whatever raise_on_fail is: a check() whose diff
\* step ends so has spawned no policy child and returns no CheckResult, and
\* a run() returns no RunResult.
Thm_C29_TimeoutNeverDowngraded ==
    \A i \in 1..Len(ended) :
        NoExit(i) =>
            /\ i = Len(ended) /\ Len(spawned) = i
            /\ pc = "done" /\ running = <<>>
            /\ result.kind = "raise"
            /\ result.error.type =
                  (IF ended[i].kind = "timeout" THEN "TimeoutExpired" ELSE "OSError")
            /\ result.error.type # "MCPTrustCommandError"

\* A run(raise_on_fail=False, timeout=30) has raised after its timeout
\* expired.
Wit_C29_RunTimeoutPropagates ==
    /\ pc = "done" /\ call.op = "run" /\ ~call.raise_on_fail
    /\ call.timeout = Some(30)
    /\ Len(ended) = 1 /\ ended[1].kind = "timeout"
    /\ result.kind = "raise" /\ result.error.type = "TimeoutExpired"

\* C30: in lock() and check() an empty server_command or an empty
\* server_argv counts as absent. A non-empty form given with an empty other
\* form is accepted and its tokens are used; with no non-empty form the
\* call raises the 'must specify' ValueError and spawns nothing; the 'not
\* both' ValueError is raised only when both forms are non-empty.
Thm_C30_EmptyFormIsAbsent ==
    call.op \in {"lock", "check"} =>
        LET sc == call.server_command
            sa == call.server_argv
            must == Raise(ValueError("Must specify server_command or server_argv"))
            both == Raise(ValueError("Specify server_command OR server_argv, not both"))
        IN /\ (sc = Some("") /\ TruthyList(sa)) =>
                 /\ spawned # <<>> /\ result # both /\ result # must
                 /\ \A i \in 1..Len(spawned) : EndsWithSeparatorAnd(spawned[i], sa[1])
           /\ (sa = Some(<<>>) /\ TruthyStr(sc) /\ sc[1] \in DOMAIN ExpectedSplit) =>
                 /\ spawned # <<>> /\ result # both /\ result # must
                 /\ \A i \in 1..Len(spawned) :
                       EndsWithSeparatorAnd(spawned[i], ExpectedSplit[sc[1]])
           /\ (sc \in {None, Some("")} /\ sa \in {None, Some(<<>>)}) =>
                 /\ pc = "done" /\ result = must
                 /\ spawned = <<>> /\ ended = <<>> /\ running = <<>>
           /\ result = both => (TruthyStr(sc) /\ TruthyList(sa))

\* A lock(server_command="", server_argv=["a", "b c"]) has spawned its
\* child with the tokens of server_argv.
Wit_C30_EmptyStringBesideArgv ==
    /\ call.op = "lock"
    /\ call.server_command = Some("") /\ call.server_argv = Some(<<"a", "b c">>)
    /\ Len(spawned) = 1 /\ EndsWithSeparatorAnd(spawned[1], <<"a", "b c">>)

====
